---- MODULE Spec2Model ----
(***************************************************************************)
(* A model of SQuire's post_checker_eval.py: the checker builder, the      *)
(* kernel workflow with its repository checkout/restore discipline, the    *)
(* analyzer driver, the diagnostic extractor and the comparator.           *)
(*                                                                         *)
(* Strings are sequences of character codes (ASCII), so that parsing,      *)
(* path normalisation, key formatting and lexicographic sorting are        *)
(* computed, not assumed.                                                  *)
(***************************************************************************)
EXTENDS Integers, Sequences, FiniteSets, TLC

(***************************************************************************)
(* Bounds of the model.                                                    *)
(***************************************************************************)
\* longest --tags list given to the workflow
MaxTags == 2
\* the clock of the checker builder's file system runs from 0 to MaxTime
MaxTime == 2
\* build_checker is called at most MaxCalls times in SpecBuild
MaxCalls == 3
\* longest compile database given to run_static_analyzer
MaxUnits == 2
\* largest --analysis-limit
MaxLimit == 1

VARIABLES
    \* ---- main / run_kernel_workflow
    pc,               \* position in main / run_kernel_workflow / run_smoke_tests
    args,             \* the parsed command line (argparse.Namespace)
    linuxExists,      \* LINUX_SUBMODULE.exists()
    repo,             \* the linux/ checkout: HEAD, branch, working tree
    original_commit,  \* run_kernel_workflow's local
    original_branch,  \* run_kernel_workflow's local
    build_tool,       \* run_kernel_workflow's local
    path_tools,       \* what shutil.which found: [looked, present]
    tagIdx,           \* index of the tag the loop of line 570 is at
    summaries,        \* run_kernel_workflow's dict: tag -> warning-key set
    stored,           \* results_root/<tag dir>/compile_commands.json: dir -> its content
    report,           \* the comparison report written by compare_summaries
    exc,              \* the exception in flight
    firstFailure,     \* history: the first exception raised in the run
    log,              \* history: every external command run, with its exit code
    wf,               \* history: where run_kernel_workflow is (idle/recorded/guarded/returned/raised)
    stderrOut,        \* what main wrote to sys.stderr
    exitCode,         \* the process exit status, None until the process exits
    \* ---- build_checker's files
    srcExists, srcMtime, libExists, libMtime, now,
    compiles,         \* history: number of successful compile commands
    calls,            \* history: number of build_checker calls
    sinceOk,          \* history: build_checker has succeeded and the source was not written since
    lastBuild,        \* history: what the last build_checker call saw and did
    \* ---- compare_summaries called on its own
    cmpSummaries,     \* the summaries dict given to compare_summaries
    cmpCall,          \* the baseline and latest tags of the call
    cmpReport,        \* the comparison it has written
    \* ---- extract_warnings called on its own
    probe,            \* a file named two ways: repository root, invocation directory, path
    probeOut,         \* the diagnostics extracted from the two lines
    \* ---- run_static_analyzer
    data,             \* the entries of compile_commands.json
    limit,            \* the unit limit: [given, n], given = FALSE for None
    unitIdx,          \* idx of the loop of line 327 (0-based, as enumerate counts)
    processed,        \* run_static_analyzer's local
    diagnostics,      \* run_static_analyzer's local
    warning_keys,     \* run_static_analyzer's local
    logs,             \* results_dir/logs: log name -> text
    warnings_txt,     \* results_dir/npd_warnings.txt, None until written
    warnings_json,    \* results_dir/npd_warnings.json, None until written
    summaryOut,       \* the AnalysisSummary returned, None until then
    apc,              \* "loop", "done", or "raised" when an exception left the function
    araised,          \* the exception that left it
    runs,             \* history: one record per analyzer invocation
    \* ---- run_command called on its own
    cmds,             \* history: one record per call, with what it raised or returned
    \* ---- generate_compile_commands called on its own
    capTree,          \* the kernel tree the calls work in
    captures,         \* history: one record per call
    \* ---- the argument filter of run_static_analyzer applied on its own
    farguments,       \* arguments: the entry's compiler command line
    fargv,            \* filtered_args as passed to run_command, << >> before
    \* ---- the file system Path.resolve() reads
    symlinks          \* the symbolic links: absolute parts -> absolute parts

flowVars == <<pc, args, linuxExists, repo, original_commit, original_branch, build_tool,
              path_tools, tagIdx, summaries, stored, report, exc, firstFailure, log, wf,
              stderrOut, exitCode>>
buildVars == <<srcExists, srcMtime, libExists, libMtime, now, compiles, calls, sinceOk,
              lastBuild>>
compareVars == <<cmpSummaries, cmpCall, cmpReport>>
probeVars == <<probe, probeOut>>
analyzerVars == <<data, limit, unitIdx, processed, diagnostics, warning_keys, logs, warnings_txt,
                 warnings_json, summaryOut, apc, araised, runs>>
runVars == <<cmds>>
captureVars == <<capTree, captures>>
filterVars == <<farguments, fargv>>
fsVars == <<symlinks>>
vars == <<flowVars, buildVars, compareVars, probeVars, analyzerVars, runVars, captureVars,
          filterVars, fsVars>>

None == "None"

(***************************************************************************)
(* Exceptions and the command runner.                                      *)
(***************************************************************************)
NoExc == [kind |-> "none", returncode |-> 0, stdout |-> None, stderr |-> None]

\* class CommandError(RuntimeError)
CommandError(returncode, stdout, stderr) ==
    [kind |-> "CommandError", returncode |-> returncode, stdout |-> stdout, stderr |-> stderr]

\* FileNotFoundError, RuntimeError, OSError, ...: anything that is not a CommandError
OtherError(kind) == [kind |-> kind, returncode |-> 0, stdout |-> None, stderr |-> None]

\* Exit codes of the external commands: 0, or the code git (128) and make and the
\* compilers (2) fail with.
GitCodes == {0, 128}
ToolCodes == {0, 2}

\* What a process started with capture_output=True can have written.
Captured == {<<"", "">>, <<"", "err">>, <<"out", "err">>}
NotCaptured == <<None, None>>

\* raises whenever the exit code is non-zero, whatever check says
run_command_checked(proc, capture_output, check) ==
    IF proc.returncode # 0
    THEN [raised |-> TRUE,
          exc |-> CommandError(proc.returncode,
                               IF capture_output THEN proc.stdout ELSE None,
                               IF capture_output THEN proc.stderr ELSE None),
          result |-> proc]
    ELSE [raised |-> FALSE, exc |-> NoExc, result |-> proc]

\* run_command: the process has run and ended with proc = [returncode, stdout, stderr];
\* the wrapper raises CommandError when check is set and the code is non-zero.
run_command(proc, capture_output, check) ==
    IF check /\ proc.returncode # 0
    THEN [raised |-> TRUE,
          exc |-> CommandError(proc.returncode,
                               IF capture_output THEN proc.stdout ELSE None,
                               IF capture_output THEN proc.stderr ELSE None),
          result |-> proc]
    ELSE [raised |-> FALSE, exc |-> NoExc, result |-> proc]

\* A finished process: with capture_output its streams are strings, else None.
Proc(rc, out, capture_output) ==
    [returncode |-> rc,
     stdout |-> IF capture_output THEN out[1] ELSE None,
     stderr |-> IF capture_output THEN out[2] ELSE None]

\* history: one record per external command
\* (phase is "build", "smoke", "setup", "tag" or "restore"; k is the tag's index in
\* the --tags list for phase "tag", 0 otherwise)
Event(op, phase, k, arg, rc) == [op |-> op, phase |-> phase, k |-> k, arg |-> arg, rc |-> rc]

(***************************************************************************)
(* build_checker                                                           *)
(***************************************************************************)
rebuild_needed_le(force) ==
    force \/ ~libExists \/ libMtime <= srcMtime

\* lines 121-125
rebuild_needed(force) ==
    force \/ ~libExists \/ libMtime < srcMtime

\* the source check skipped when an artifact can be reused
source_missing_unless_built == ~srcExists /\ ~libExists

\* line 118
source_missing == ~srcExists

\* build_checker(force), the compile command (if run) ending with exit code rc.
\* The outcome is left in lastBuild: "MissingInput", "CommandError", "compiled", "reused".
build_checker(force, rc) ==
    LET seen == [force |-> force, srcExists |-> srcExists, srcMtime |-> srcMtime,
                 libExists |-> libExists, libMtime |-> libMtime, rc |-> rc,
                 repeat |-> sinceOk]
    IN
    /\ calls' = calls + 1
    /\ UNCHANGED <<srcExists, srcMtime, now>>
    /\ IF source_missing
       THEN /\ rc = 0
            /\ lastBuild' = [seen EXCEPT !.rc = 0] @@ [outcome |-> "MissingInput", ran |-> FALSE]
            /\ UNCHANGED <<libExists, libMtime, compiles>>
       ELSE IF rebuild_needed(force)
       THEN IF run_command(Proc(rc, NotCaptured, FALSE), FALSE, TRUE).raised
            THEN /\ lastBuild' = seen @@ [outcome |-> "CommandError", ran |-> TRUE]
                 /\ UNCHANGED <<libExists, libMtime, compiles>>
            ELSE /\ lastBuild' = seen @@ [outcome |-> "compiled", ran |-> TRUE]
                 /\ libExists' = TRUE
                 /\ libMtime' = now
                 /\ compiles' = compiles + 1
       ELSE /\ rc = 0
            /\ lastBuild' = [seen EXCEPT !.rc = 0] @@ [outcome |-> "reused", ran |-> FALSE]
            /\ UNCHANGED <<libExists, libMtime, compiles>>
    /\ sinceOk' = (lastBuild'.outcome \in {"compiled", "reused"})

NoBuild == [force |-> FALSE, srcExists |-> FALSE, srcMtime |-> 0, libExists |-> FALSE,
            libMtime |-> 0, rc |-> 0, repeat |-> FALSE, outcome |-> "none", ran |-> FALSE]

(***************************************************************************)
(* Strings: sequences of ASCII codes.                                      *)
(***************************************************************************)
Slash == <<47>>
Colon == <<58>>
Dot == <<46>>
DotDot == <<46, 46>>
Newline == <<10>>
Space == <<32>>
Digits == 48..57
\* what str.strip() removes and \s matches, among the characters of the model
Whitespace == {32, 9}
\* "Possible NULL dereference"
Marker == <<80,111,115,115,105,98,108,101,32,78,85,76,76,32,100,101,114,101,102,101,
            114,101,110,99,101>>
\* "warning", "error"
SevWarning == <<119,97,114,110,105,110,103>>
SevError == <<101,114,114,111,114>>

\* F(v), with v computed once: Python evaluates an expression when it assigns it,
\* and a bound variable holds a value
With(v, F(_)) == CHOOSE r \in {F(x) : x \in {v}} : TRUE

Min(S) == CHOOSE x \in S : \A y \in S : x <= y
Max(S) == CHOOSE x \in S : \A y \in S : x >= y

\* s[i..] starts with pre
StartsAt(s, i, pre) ==
    /\ i + Len(pre) - 1 <= Len(s)
    /\ \A k \in 1..Len(pre) : s[i + k - 1] = pre[k]

\* Python's `pre in s`
Contains(s, pre) == \E i \in 1..(Len(s) + 1) : StartsAt(s, i, pre)

\* str.endswith(suf)
EndsWith(s, suf) ==
    /\ Len(suf) <= Len(s)
    /\ SubSeq(s, Len(s) - Len(suf) + 1, Len(s)) = suf

\* str.strip()
Strip(s) ==
    With({i \in 1..Len(s) : s[i] \notin Whitespace}, LAMBDA keep :
         IF keep = {} THEN << >> ELSE SubSeq(s, Min(keep), Max(keep)))

\* the first position at or after i where s holds c, Len(s) + 1 when there is none
FirstAt(s, i, c) ==
    With({j \in i..Len(s) : s[j] = c}, LAMBDA at :
         IF at = {} THEN Len(s) + 1 ELSE Min(at))

\* str.splitlines(), for texts whose only line break is \n
RECURSIVE LinesFrom(_, _)
LinesFrom(s, i) ==
    IF i > Len(s) THEN << >>
    ELSE With(FirstAt(s, i, Newline[1]), LAMBDA j :
              <<SubSeq(s, i, j - 1)>> \o LinesFrom(s, j + 1))

SplitLines(s) == LinesFrom(s, 1)

\* str.split("/")
RECURSIVE PartsFrom(_, _)
PartsFrom(s, i) ==
    With(FirstAt(s, i, Slash[1]), LAMBDA j :
         IF j > Len(s) THEN <<SubSeq(s, i, Len(s))>>
         ELSE <<SubSeq(s, i, j - 1)>> \o PartsFrom(s, j + 1))

SplitSlash(s) == PartsFrom(s, 1)

\* int() of a string of decimal digits
RECURSIVE DigitsValue(_, _)
DigitsValue(d, n) == IF n = 0 THEN 0 ELSE 10 * DigitsValue(d, n - 1) + (d[n] - 48)

ParseInt(d) == DigitsValue(d, Len(d))

\* the length of the longest run of characters of class C that starts at s[i]
RunLen(s, i, C) ==
    With({j \in i..Len(s) : s[j] \notin C}, LAMBDA stop :
         IF stop = {} THEN Len(s) - i + 1 ELSE Min(stop) - i)

\* Python's < on str: by code point, a proper prefix first
RECURSIVE LessFrom(_, _, _)
LessFrom(a, b, i) ==
    IF i > Len(b) THEN FALSE
    ELSE IF i > Len(a) THEN TRUE
    ELSE IF a[i] # b[i] THEN a[i] < b[i]
    ELSE LessFrom(a, b, i + 1)

StrLess(a, b) == LessFrom(a, b, 1)

\* sorted(S) for a set of strings
RECURSIVE Sorted(_)
Sorted(S) ==
    With(S, LAMBDA T :
         IF T = {} THEN << >>
         ELSE With(CHOOSE x \in T : \A y \in T \ {x} : StrLess(x, y), LAMBDA m :
                   <<m>> \o Sorted(T \ {m})))

\* sep.join(parts)
RECURSIVE JoinFrom(_, _, _)
JoinFrom(parts, i, sep) ==
    IF i > Len(parts) THEN << >>
    ELSE IF i = Len(parts) THEN parts[i]
    ELSE parts[i] \o sep \o JoinFrom(parts, i + 1, sep)

JoinWith(parts, sep) == JoinFrom(parts, 1, sep)

(***************************************************************************)
(* pathlib.  A path is [abs, parts]; the file system holds one symbolic    *)
(* link, /w -> /r, so that resolve() is more than a normalisation.         *)
(***************************************************************************)
\* Path(s): empty and "." components are dropped, ".." is kept
RECURSIVE DropDots(_, _)
DropDots(parts, i) ==
    IF i > Len(parts) THEN << >>
    ELSE IF parts[i] = << >> \/ parts[i] = Dot THEN DropDots(parts, i + 1)
    ELSE <<parts[i]>> \o DropDots(parts, i + 1)

Path(s) ==
    With(SplitSlash(s), LAMBDA parts :
         [abs |-> StartsAt(s, 1, Slash), parts |-> DropDots(parts, 1)])

\* str(path)
PathStr(p) ==
    IF p.abs THEN Slash \o JoinWith(p.parts, Slash)
    ELSE IF p.parts = << >> THEN Dot
    ELSE JoinWith(p.parts, Slash)

\* base / rel, for a relative rel
PathJoin(base, rel) == [abs |-> base.abs, parts |-> base.parts \o rel.parts]

\* the symbolic link of the file system when the program starts: /w -> /r
LinkW == <<<<119>>>>   \* "w"
LinkTarget == <<<<114>>>>   \* "r"
FsStart == symlinks = (LinkW :> LinkTarget)

\* os.readlink, as Path.resolve() uses it: the target of a link, the path itself
\* when it is no link
ReadLink(parts) == IF parts \in DOMAIN symlinks THEN symlinks[parts] ELSE parts

\* the working directory of the Python process, where Path.resolve() starts from
\* for a relative path
Cwd == <<<<112>>>>   \* "p"

\* Path.resolve(strict=False): ".." goes to the parent of the path resolved so far,
\* a name is appended and the link it may be is followed
RECURSIVE ResolveFrom(_, _, _)
ResolveFrom(done, todo, i) ==
    IF i > Len(todo) THEN done
    ELSE With(IF todo[i] = DotDot
              THEN (IF done = << >> THEN << >> ELSE SubSeq(done, 1, Len(done) - 1))
              ELSE ReadLink(Append(done, todo[i])),
              LAMBDA next : ResolveFrom(next, todo, i + 1))

Resolve(p) ==
    [abs |-> TRUE, parts |-> ResolveFrom(IF p.abs THEN << >> ELSE Cwd, p.parts, 1)]

IsUnder(p, root) ==
    /\ Len(root.parts) <= Len(p.parts)
    /\ SubSeq(p.parts, 1, Len(root.parts)) = root.parts

\* lines 278-281: abs_path.relative_to(root), abs_path itself on ValueError
RelativeToOrSelf(p, root) ==
    IF IsUnder(p, root)
    THEN [abs |-> FALSE, parts |-> SubSeq(p.parts, Len(root.parts) + 1, Len(p.parts))]
    ELSE p

(***************************************************************************)
(* extract_warnings, lines 251-298, with the pattern of lines 318-321      *)
(***************************************************************************)
NoMatch == [ok |-> FALSE]

\* (?P<severity>warning|error) at s[i]
severity_at(s, i) ==
    IF StartsAt(s, i, SevWarning) THEN SevWarning
    ELSE IF StartsAt(s, i, SevError) THEN SevError
    ELSE << >>

\* pattern.match(s) for
\*   ^(?P<path>[^:\n]+):(?P<line>\d+):(?P<col>\d+):\s+(?P<severity>warning|error):\s+
\*    (?P<message>Possible NULL dereference.*)$
\* The pattern has one way to match at most: the path ends at the first colon and
\* every run of digits or blanks is followed by a character outside its class.
\* c1..c4 are the positions of the four colons, sv and m those of the severity and
\* of the message.
pattern_match(s) ==
    With(FirstAt(s, 1, Colon[1]), LAMBDA c1 :
    With(c1 + 1 + RunLen(s, c1 + 1, Digits), LAMBDA c2 :
    With(c2 + 1 + RunLen(s, c2 + 1, Digits), LAMBDA c3 :
    With(c3 + 1 + RunLen(s, c3 + 1, Whitespace), LAMBDA sv :
    With(severity_at(s, sv), LAMBDA sev :
    With(sv + Len(sev), LAMBDA c4 :
    With(c4 + 1 + RunLen(s, c4 + 1, Whitespace), LAMBDA m :
         IF /\ c1 > 1 /\ c1 <= Len(s)
            /\ c2 > c1 + 1 /\ c2 <= Len(s) /\ s[c2] = Colon[1]
            /\ c3 > c2 + 1 /\ c3 <= Len(s) /\ s[c3] = Colon[1]
            /\ sv > c3 + 1 /\ sev # << >>
            /\ c4 <= Len(s) /\ s[c4] = Colon[1]
            /\ m > c4 + 1 /\ StartsAt(s, m, Marker)
         THEN [ok |-> TRUE,
               path |-> SubSeq(s, 1, c1 - 1),
               line |-> SubSeq(s, c1 + 1, c2 - 1),
               col |-> SubSeq(s, c2 + 1, c3 - 1),
               severity |-> sev,
               message |-> SubSeq(s, m, Len(s))]
         ELSE NoMatch)))))))

\* lines 272-276 without the resolve() of line 276
abs_path_of_unresolved(raw_path, entry_dir_resolved) ==
    IF ~raw_path.abs
    THEN Resolve(PathJoin(entry_dir_resolved, raw_path))
    ELSE raw_path

\* lines 272-276: the absolute path of the file a diagnostic names
abs_path_of(raw_path, entry_dir_resolved) ==
    IF ~raw_path.abs
    THEN Resolve(PathJoin(entry_dir_resolved, raw_path))
    ELSE Resolve(raw_path)

\* lines 271-297: the record of a line the pattern matches
diagnostic_of(match, stripped, repo_root_resolved, entry_dir_resolved) ==
    With(abs_path_of(Path(match.path), entry_dir_resolved), LAMBDA abs_path :
    With(PathStr(RelativeToOrSelf(abs_path, repo_root_resolved)), LAMBDA rel_path :
    With(Strip(match.message), LAMBDA message :
         [file |-> rel_path,
          line |-> ParseInt(match.line),
          column |-> ParseInt(match.col),
          severity |-> match.severity,
          message |-> message,
          key |-> rel_path \o Colon \o match.line \o Colon \o message,
          raw |-> stripped])))

\* lines 266-297: the record of one line, << >> when the line is skipped
extract_line(line, repo_root_resolved, entry_dir_resolved) ==
    IF ~Contains(line, Marker) THEN << >>
    ELSE With(Strip(line), LAMBDA stripped :
         With(pattern_match(stripped), LAMBDA match :
              IF ~match.ok THEN << >>
              ELSE <<diagnostic_of(match, stripped, repo_root_resolved, entry_dir_resolved)>>))

\* the loop of line 265, from line i on
RECURSIVE extract_lines(_, _, _, _)
extract_lines(lines, i, repo_root_resolved, entry_dir_resolved) ==
    IF i > Len(lines) THEN << >>
    ELSE extract_line(lines[i], repo_root_resolved, entry_dir_resolved)
         \o extract_lines(lines, i + 1, repo_root_resolved, entry_dir_resolved)

\* extract_warnings(diagnostic_text, repo_root, entry_directory, pattern)
extract_warnings(diagnostic_text, repo_root, entry_directory) ==
    IF diagnostic_text = << >> THEN << >>
    ELSE With(Resolve(repo_root), LAMBDA repo_root_resolved :
         With(Resolve(entry_directory), LAMBDA entry_dir_resolved :
         With(SplitLines(diagnostic_text), LAMBDA lines :
              extract_lines(lines, 1, repo_root_resolved, entry_dir_resolved))))

(***************************************************************************)
(* compare_summaries, lines 492-541.  A summary is an AnalysisSummary; the *)
(* result is what the report file holds, written = FALSE when the function *)
(* printed "insufficient data" and returned.                               *)
(***************************************************************************)
AnalysisSummary(tag, warnings) == [tag |-> tag, warnings |-> warnings]

compare_summaries_swapped(sums, baseline_tag, latest_tag) ==
    IF baseline_tag \notin DOMAIN sums \/ latest_tag \notin DOMAIN sums
    THEN [written |-> FALSE]
    ELSE LET baseline == sums[baseline_tag]
             latest == sums[latest_tag]
         IN [written |-> TRUE, baseline_tag |-> baseline_tag, latest_tag |-> latest_tag,
             fixed |-> Sorted(latest.warnings \ baseline.warnings),
             persistent |-> Sorted(baseline.warnings \cap latest.warnings),
             regressions |-> Sorted(latest.warnings \ baseline.warnings)]

\* (a missing summary taken for one without warnings)
compare_summaries_lenient(sums, baseline_tag, latest_tag) ==
    LET warnings_of(tag) == IF tag \in DOMAIN sums THEN sums[tag].warnings ELSE {}
    IN  [written |-> TRUE, baseline_tag |-> baseline_tag, latest_tag |-> latest_tag,
         fixed |-> Sorted(warnings_of(baseline_tag) \ warnings_of(latest_tag)),
         persistent |-> Sorted(warnings_of(baseline_tag) \cap warnings_of(latest_tag)),
         regressions |-> Sorted(warnings_of(latest_tag) \ warnings_of(baseline_tag))]

\* lines 499-541
compare_summaries(sums, baseline_tag, latest_tag) ==
    IF baseline_tag \notin DOMAIN sums \/ latest_tag \notin DOMAIN sums
    THEN [written |-> FALSE]
    ELSE LET baseline == sums[baseline_tag]
             latest == sums[latest_tag]
         IN [written |-> TRUE, baseline_tag |-> baseline_tag, latest_tag |-> latest_tag,
             fixed |-> Sorted(baseline.warnings \ latest.warnings),
             persistent |-> Sorted(baseline.warnings \cap latest.warnings),
             regressions |-> Sorted(latest.warnings \ baseline.warnings)]

(***************************************************************************)
(* The linux/ checkout as git sees it.  head is the commit HEAD resolves   *)
(* to, branch the checked-out branch ("HEAD" when detached), tip the       *)
(* commit the named branch points to, modified/untracked the state of the  *)
(* working tree, cdb the tag whose build wrote compile_commands.json into  *)
(* the tree ("none" when the file is absent).                              *)
(***************************************************************************)
TagNames == {"v5.9", "v5.17"}
\* a ref with a "/" in its name, as --tags takes them ("Kernel tags/commits")
SlashTags == {"next/master"}
OrigCommit == "c0ffee"
BranchName == "master"
Detached == "HEAD"

\* a tag is checked out as the commit it names; the branch as its tip
CommitOf(r, target) == IF target = BranchName THEN r.tip ELSE target

\* git checkout <target>: moves HEAD; local modifications and untracked files
\* that do not conflict are carried over
git_checkout(r, target) ==
    [r EXCEPT !.head = CommitOf(r, target),
              !.branch = IF target = BranchName THEN BranchName ELSE Detached]

\* git reset --hard <commit>: moves HEAD (and the checked-out branch) to the
\* commit and discards modifications of tracked files
git_reset_hard(r, commit) ==
    LET c == IF commit = "HEAD" THEN r.head ELSE commit IN
    [r EXCEPT !.head = c,
              !.tip = IF r.branch = Detached THEN r.tip ELSE c,
              !.modified = FALSE]

\* git clean -fdx: removes untracked and ignored files, compile_commands.json among them
git_clean_fdx(r) == [r EXCEPT !.untracked = FALSE, !.cdb = "none"]

\* git rev-parse HEAD / git rev-parse --abbrev-ref HEAD
git_rev_parse_HEAD(r) == r.head
git_rev_parse_abbrev_ref_HEAD(r) == r.branch

\* make defconfig writes .config, an untracked file
Configured(r) == [r EXCEPT !.untracked = TRUE]

\* the captured build leaves untracked files (objects) and may modify tracked ones,
\* whether it succeeds or not
Dirtied(r) == {[r EXCEPT !.modified = m, !.untracked = TRUE] : m \in {r.modified, TRUE}}

(***************************************************************************)
(* main, lines 666-683                                                     *)
(***************************************************************************)
Raise(e) ==
    /\ exc' = e
    /\ firstFailure' = IF firstFailure.kind = "none" THEN e ELSE firstFailure

\* a command of the workflow, outside the guarded block, has run with proc
Logged(op, phase, arg, rc) ==
    log' = Append(log, Event(op, phase, IF phase = "tag" THEN tagIdx ELSE 0, arg, rc))

\* line 669: checker_path = build_checker(force=args.force_rebuild)
main_build_checker ==
    /\ pc = "main"
    /\ \E rc \in ToolCodes : build_checker(args.force_rebuild, rc)
    /\ IF lastBuild'.outcome = "MissingInput"
       THEN Raise(OtherError("FileNotFoundError")) /\ pc' = "main_except" /\ UNCHANGED log
       ELSE IF lastBuild'.outcome = "CommandError"
       THEN /\ Raise(run_command(Proc(lastBuild'.rc, NotCaptured, FALSE), FALSE, TRUE).exc)
            /\ pc' = "main_except"
            /\ Logged("clang++", "build", "checker", lastBuild'.rc)
       ELSE /\ UNCHANGED <<exc, firstFailure>>
            /\ pc' = IF args.mode = "smoke" THEN "smoke" ELSE "ensure_linux_submodule"
            /\ IF lastBuild'.ran THEN Logged("clang++", "build", "checker", 0) ELSE UNCHANGED log
    /\ UNCHANGED <<args, linuxExists, repo, original_commit, original_branch, build_tool, path_tools,
                   tagIdx, summaries, stored, report, wf, stderrOut, exitCode>>
    /\ UNCHANGED <<compareVars, probeVars, analyzerVars, runVars, captureVars, filterVars, fsVars>>

SmokeVariants == <<"pre", "post">>

\* run_smoke_tests, one fixture per step (tagIdx counts the fixtures)
run_smoke_tests ==
    /\ pc = "smoke"
    /\ UNCHANGED <<args, linuxExists, repo, original_commit, original_branch, build_tool, path_tools,
                   summaries, stored, report, wf, stderrOut, exitCode>>
    /\ UNCHANGED <<buildVars, compareVars, probeVars, analyzerVars, runVars, captureVars, filterVars, fsVars>>
    /\ IF tagIdx > Len(SmokeVariants)
       THEN pc' = "main_return" /\ UNCHANGED <<tagIdx, exc, firstFailure, log>>
       ELSE \/ \* test/ or test/<variant>/file.c is missing
               /\ Raise(OtherError("FileNotFoundError"))
               /\ pc' = "main_except"
               /\ UNCHANGED <<tagIdx, log>>
            \/ \E rc \in ToolCodes, out \in Captured :
                 LET r == run_command(Proc(rc, out, TRUE), TRUE, TRUE) IN
                 /\ Logged("clang", "smoke", SmokeVariants[tagIdx], rc)
                 /\ IF r.raised
                    THEN Raise(r.exc) /\ pc' = "main_except" /\ UNCHANGED tagIdx
                    ELSE UNCHANGED <<exc, firstFailure>> /\ pc' = "smoke" /\ tagIdx' = tagIdx + 1

\* lines 674-683: the two except clauses of main, then sys.exit
main_except ==
    /\ pc = "main_except"
    /\ pc' = "exited"
    /\ IF exc.kind = "CommandError"
       THEN /\ stderrOut' = (IF exc.stdout \notin {None, ""} THEN <<exc.stdout>> ELSE << >>)
                            \o (IF exc.stderr \notin {None, ""} THEN <<exc.stderr>> ELSE << >>)
                            \o <<"error">>
            /\ exitCode' = IF exc.returncode # 0 THEN exc.returncode ELSE 1
       ELSE /\ stderrOut' = <<"Unhandled error">>
            /\ exitCode' = 1
    /\ UNCHANGED <<args, linuxExists, repo, original_commit, original_branch, build_tool, path_tools,
                   tagIdx, summaries, stored, report, exc, firstFailure, log, wf>>
    /\ UNCHANGED <<buildVars, compareVars, probeVars, analyzerVars, runVars, captureVars, filterVars, fsVars>>

\* main returns: the interpreter exits with status 0
main_return ==
    /\ pc = "main_return"
    /\ pc' = "exited"
    /\ exitCode' = 0
    /\ UNCHANGED <<args, linuxExists, repo, original_commit, original_branch, build_tool, path_tools,
                   tagIdx, summaries, stored, report, exc, firstFailure, log, wf, stderrOut>>
    /\ UNCHANGED <<buildVars, compareVars, probeVars, analyzerVars, runVars, captureVars, filterVars, fsVars>>

(***************************************************************************)
(* run_kernel_workflow, lines 544-595, before the guarded block            *)
(***************************************************************************)
FlowFrame ==
    /\ UNCHANGED <<args, stderrOut, exitCode>>
    /\ UNCHANGED <<buildVars, compareVars, probeVars, analyzerVars, runVars, captureVars, filterVars, fsVars>>

\* a command run with check=True outside the try block: a failure leaves the workflow
Unguarded(op, arg, codes, capture_output, okPc) ==
    \E rc \in codes, out \in (IF capture_output THEN Captured ELSE {NotCaptured}) :
        LET r == run_command(Proc(rc, out, capture_output), capture_output, TRUE) IN
        /\ Logged(op, "setup", arg, rc)
        /\ IF r.raised
           THEN Raise(r.exc) /\ pc' = "main_except" /\ wf' = "raised"
           ELSE UNCHANGED <<exc, firstFailure>> /\ pc' = okPc /\ wf' = "running"

\* lines 92-97 and 546-548
ensure_linux_submodule ==
    /\ pc = "ensure_linux_submodule"
    /\ FlowFrame
    /\ UNCHANGED <<repo, original_commit, original_branch, build_tool, path_tools, tagIdx, summaries,
                   stored, report>>
    /\ IF linuxExists
       THEN pc' = "fetch" /\ wf' = "running" /\ UNCHANGED <<linuxExists, exc, firstFailure, log>>
       ELSE \E created \in BOOLEAN :
              /\ Unguarded("git submodule update", "linux", GitCodes, FALSE,
                           IF created THEN "fetch" ELSE "submodule_missing")
              /\ linuxExists' = (created /\ pc' # "main_except")

\* line 548: the submodule is still missing after the initialization attempt
submodule_missing ==
    /\ pc = "submodule_missing"
    /\ FlowFrame
    /\ Raise(OtherError("FileNotFoundError"))
    /\ pc' = "main_except"
    /\ wf' = "raised"
    /\ UNCHANGED <<linuxExists, repo, original_commit, original_branch, build_tool, path_tools, tagIdx,
                   summaries, stored, report, log>>

\* line 550
git_fetch_tags ==
    /\ pc = "fetch"
    /\ FlowFrame
    /\ Unguarded("git fetch", "--tags", GitCodes, FALSE, "rev_parse_commit")
    /\ UNCHANGED <<linuxExists, repo, original_commit, original_branch, build_tool, path_tools, tagIdx,
                   summaries, stored, report>>

\* lines 552-556
record_original_commit ==
    /\ pc = "rev_parse_commit"
    /\ FlowFrame
    /\ Unguarded("git rev-parse", "HEAD", GitCodes, TRUE, "rev_parse_branch")
    /\ original_commit' = IF pc' = "main_except" THEN original_commit
                          ELSE git_rev_parse_HEAD(repo)
    /\ UNCHANGED <<linuxExists, repo, original_branch, build_tool, path_tools, tagIdx, summaries,
                   stored, report>>

\* lines 557-561
record_original_branch ==
    /\ pc = "rev_parse_branch"
    /\ FlowFrame
    /\ Unguarded("git rev-parse", "--abbrev-ref HEAD", GitCodes, TRUE, "results_root")
    /\ original_branch' = IF pc' = "main_except" THEN original_branch
                          ELSE git_rev_parse_abbrev_ref_HEAD(repo)
    /\ UNCHANGED <<linuxExists, repo, original_commit, build_tool, path_tools, tagIdx, summaries,
                   stored, report>>

\* lines 563-564: results_root.mkdir(parents=True, exist_ok=True) succeeds or raises OSError
results_root_mkdir ==
    /\ pc = "results_root"
    /\ FlowFrame
    /\ UNCHANGED <<linuxExists, repo, original_commit, original_branch, build_tool, path_tools, tagIdx,
                   summaries, stored, report, log>>
    /\ \/ pc' = "find_compile_db_tool" /\ UNCHANGED <<exc, firstFailure, wf>>
       \/ Raise(OtherError("OSError")) /\ pc' = "main_except" /\ wf' = "raised"

CaptureTools == <<"intercept-build", "bear">>

\* lines 176-184; present is the set of tools shutil.which finds
find_compile_db_tool_last(present) ==
    IF CaptureTools[2] \in present THEN CaptureTools[2]
    ELSE IF CaptureTools[1] \in present THEN CaptureTools[1]
    ELSE "ToolNotFound"

\* (a tool named although none is on the PATH)
find_compile_db_tool_unchecked(present) ==
    IF CaptureTools[2] \in present /\ CaptureTools[1] \notin present THEN CaptureTools[2]
    ELSE CaptureTools[1]

find_compile_db_tool(present) ==
    IF CaptureTools[1] \in present THEN CaptureTools[1]
    ELSE IF CaptureTools[2] \in present THEN CaptureTools[2]
    ELSE "ToolNotFound"

\* (the loop of line 570 ending one element early)
NextTagPc_short(i) == IF i < Len(args.tags) THEN "tag_checkout" ELSE "restore_clean1"

\* line 570: the next element of args.tags, or the end of the loop
NextTagPc(i) == IF i <= Len(args.tags) THEN "tag_checkout" ELSE "restore_clean1"

\* lines 566-569: the tool is looked up, then the try block is entered
select_build_tool ==
    /\ pc = "find_compile_db_tool"
    /\ FlowFrame
    /\ UNCHANGED <<linuxExists, repo, original_commit, original_branch, tagIdx, summaries,
                   stored, report, log>>
    /\ \E present \in SUBSET {CaptureTools[1], CaptureTools[2]} :
         LET tool == find_compile_db_tool(present) IN
         /\ path_tools' = [looked |-> TRUE, present |-> present]
         /\ IF tool = "ToolNotFound"
            THEN /\ Raise(OtherError("RuntimeError"))
                 /\ pc' = "main_except"
                 /\ wf' = "raised"
                 /\ UNCHANGED build_tool
            ELSE /\ build_tool' = tool
                 /\ pc' = NextTagPc(tagIdx)
                 /\ wf' = "guarded"
                 /\ UNCHANGED <<exc, firstFailure>>

(***************************************************************************)
(* analyze_kernel_revision, lines 426-474, inside the try block            *)
(***************************************************************************)
CurrentTag == args.tags[tagIdx]

\* line 446: tag.replace("/", "_"), on the tag names of the model
TagDir(tag) == IF tag \in SlashTags THEN "next_master" ELSE tag

\* (as if the try block had no finally clause: the failure leaves the workflow at once)
GuardedStep_no_finally(op, arg, rc, okPc) ==
    /\ Logged(op, "tag", arg, rc)
    /\ IF run_command(Proc(rc, NotCaptured, FALSE), FALSE, TRUE).raised
       THEN /\ Raise(run_command(Proc(rc, NotCaptured, FALSE), FALSE, TRUE).exc)
            /\ pc' = "main_except"
       ELSE /\ UNCHANGED <<exc, firstFailure>>
            /\ pc' = okPc

\* a command run with check=True inside the try block (lines 569-587): a failure
\* goes to the finally clause
GuardedStep(op, arg, rc, okPc) ==
    /\ Logged(op, "tag", arg, rc)
    /\ IF run_command(Proc(rc, NotCaptured, FALSE), FALSE, TRUE).raised
       THEN /\ Raise(run_command(Proc(rc, NotCaptured, FALSE), FALSE, TRUE).exc)
            /\ pc' = "restore_clean1"
       ELSE /\ UNCHANGED <<exc, firstFailure>>
            /\ pc' = okPc

TagFrame ==
    /\ FlowFrame
    /\ UNCHANGED <<linuxExists, original_commit, original_branch, build_tool, path_tools, report, wf>>

\* line 442
tag_checkout ==
    /\ pc = "tag_checkout"
    /\ TagFrame
    /\ UNCHANGED <<tagIdx, summaries, stored>>
    /\ \E rc \in GitCodes :
         /\ GuardedStep("git checkout", CurrentTag, rc, "tag_reset")
         /\ repo' = IF rc = 0 THEN git_checkout(repo, CurrentTag) ELSE repo

\* (the reset left out)
tag_reset_skipped ==
    /\ pc = "tag_reset"
    /\ TagFrame
    /\ UNCHANGED <<tagIdx, summaries, stored, repo, exc, firstFailure, log>>
    /\ pc' = "tag_clean"

\* line 443
tag_reset ==
    /\ pc = "tag_reset"
    /\ TagFrame
    /\ UNCHANGED <<tagIdx, summaries, stored>>
    /\ \E rc \in GitCodes :
         /\ GuardedStep("git reset --hard", "HEAD", rc, "tag_clean")
         /\ repo' = IF rc = 0 THEN git_reset_hard(repo, "HEAD") ELSE repo

\* line 444
tag_clean ==
    /\ pc = "tag_clean"
    /\ TagFrame
    /\ UNCHANGED <<tagIdx, summaries, stored>>
    /\ \E rc \in GitCodes :
         /\ GuardedStep("git clean -fdx", "tag", rc, "tag_cdb")
         /\ repo' = IF rc = 0 THEN git_clean_fdx(repo) ELSE repo

\* the stored database used whenever there is one, asked for or not
reuse_stored_if_exists(reuse_cdb, exists) == exists

\* line 453: reuse_cdb and stored_cdb.exists()
reuse_stored(reuse_cdb, exists) == reuse_cdb /\ exists

\* lines 446-455: the stored database is copied into the tree when reuse is asked
\* for and one is stored; otherwise the kernel is configured and built.  The log
\* keeps whether a stored database existed when the tag came to line 453.
tag_cdb ==
    /\ pc = "tag_cdb"
    /\ TagFrame
    /\ UNCHANGED <<tagIdx, summaries, stored, exc, firstFailure>>
    /\ \E exists \in {TagDir(CurrentTag) \in DOMAIN stored} :
         \E probed \in {Append(log, Event("stored_cdb.exists", "tag", tagIdx,
                                          IF exists THEN "stored" ELSE "missing", 0))} :
            IF reuse_stored(args.reuse_cdb, exists)
            THEN /\ repo' = [repo EXCEPT !.cdb = stored[TagDir(CurrentTag)]]
                 /\ log' = Append(probed, Event("copy2", "tag", tagIdx, "stored to repo", 0))
                 /\ pc' = "tag_analyze"
            ELSE /\ UNCHANGED repo
                 /\ log' = probed
                 /\ pc' = "tag_mrproper"

\* ensure_kernel_config, line 203
tag_mrproper ==
    /\ pc = "tag_mrproper"
    /\ TagFrame
    /\ UNCHANGED <<tagIdx, summaries, stored>>
    /\ \E rc \in ToolCodes :
         /\ GuardedStep("make mrproper", CurrentTag, rc, "tag_defconfig")
         /\ repo' = repo

\* ensure_kernel_config, line 204
tag_defconfig ==
    /\ pc = "tag_defconfig"
    /\ TagFrame
    /\ UNCHANGED <<tagIdx, summaries, stored>>
    /\ \E rc \in ToolCodes :
         /\ GuardedStep("make defconfig", CurrentTag, rc, "tag_capture")
         /\ repo' = IF rc = 0 THEN Configured(repo) ELSE repo

\* the database of an earlier capture left where it is
cdb_kept(r) == r

\* lines 219-221: an existing compile_commands.json is removed
cdb_unlinked(r) == [r EXCEPT !.cdb = "none"]

\* generate_compile_commands, lines 207-248, on the tree r: the build ends with exit
\* code rc, after writing compile_commands.json (with content) or, written = FALSE,
\* without writing it.  Gives the tree, the exception raised and the database returned.
generate_compile_commands(r, content, rc, written) ==
    LET built == [cdb_unlinked(r) EXCEPT !.cdb = IF written THEN content ELSE @]
        run == run_command(Proc(rc, NotCaptured, FALSE), FALSE, TRUE)
    IN  IF run.raised
        THEN [repo |-> built, exc |-> run.exc, returned |-> "none"]
        ELSE IF built.cdb = "none"
        THEN [repo |-> built, exc |-> OtherError("RuntimeError"), returned |-> "none"]
        ELSE [repo |-> built, exc |-> NoExc, returned |-> built.cdb]

\* line 459 and the copy of line 460, the build dirtying the tree
tag_capture ==
    /\ pc = "tag_capture"
    /\ TagFrame
    /\ UNCHANGED <<tagIdx, summaries>>
    /\ \E rc \in ToolCodes, written \in BOOLEAN, dirty \in Dirtied(repo) :
         \E g \in {generate_compile_commands(dirty, CurrentTag, rc, written)} :
            /\ Logged(build_tool, "tag", CurrentTag, rc)
            /\ repo' = g.repo
            /\ IF g.exc.kind # "none"
               THEN /\ Raise(g.exc)
                    /\ pc' = "restore_clean1"
                    /\ UNCHANGED stored
               ELSE /\ UNCHANGED <<exc, firstFailure>>
                    /\ stored' = (TagDir(CurrentTag) :> g.returned) @@ stored
                    /\ pc' = "tag_analyze"

\* the warning-key sets an analysis of the model's kernel can return
KeyA == <<102,46,99>> \o Colon \o <<49,48>> \o Colon \o Marker
KeyB == <<102,46,99>> \o Colon \o <<50>> \o Colon \o Marker
WorkflowWarnings == {{KeyA}, {KeyA, KeyB}}

\* lines 462-474 and 585: run_static_analyzer returns a summary or raises (a
\* malformed database, a compiler that cannot be started); then the database is
\* removed from the tree unless --keep-cdb, and the summary is stored
tag_analyze ==
    /\ pc = "tag_analyze"
    /\ TagFrame
    /\ UNCHANGED stored
    /\ \/ /\ Raise(OtherError("AnalyzerError"))
          /\ Logged("run_static_analyzer", "tag", CurrentTag, 1)
          /\ pc' = "restore_clean1"
          /\ UNCHANGED <<repo, tagIdx, summaries>>
       \/ \E w \in WorkflowWarnings :
          /\ Logged("run_static_analyzer", "tag", CurrentTag, 0)
          /\ repo' = IF ~args.keep_cdb THEN [repo EXCEPT !.cdb = "none"] ELSE repo
          /\ summaries' = (CurrentTag :> AnalysisSummary(CurrentTag, w)) @@ summaries
          /\ tagIdx' = tagIdx + 1
          /\ pc' = NextTagPc(tagIdx + 1)
          /\ UNCHANGED <<exc, firstFailure>>

(***************************************************************************)
(* restore_linux_repo, lines 477-489, run from the finally clause          *)
(***************************************************************************)
RestoreFrame ==
    /\ FlowFrame
    /\ UNCHANGED <<linuxExists, original_commit, original_branch, build_tool, path_tools, tagIdx,
                   summaries, stored, report>>

\* (a failure of a restoration command passed over: the restoration goes on)
RestoreStep_unchecked(op, arg, rc, okRepo, okPc) ==
    /\ Logged(op, "restore", arg, rc)
    /\ UNCHANGED <<exc, firstFailure, wf>>
    /\ repo' = IF rc = 0 THEN okRepo ELSE repo
    /\ pc' = okPc

\* a git command of the restoration: a failure replaces the exception in flight and
\* leaves the workflow
RestoreStep(op, arg, rc, okRepo, okPc) ==
    /\ Logged(op, "restore", arg, rc)
    /\ IF run_command(Proc(rc, NotCaptured, FALSE), FALSE, TRUE).raised
       THEN /\ Raise(run_command(Proc(rc, NotCaptured, FALSE), FALSE, TRUE).exc)
            /\ pc' = "main_except"
            /\ wf' = "raised"
            /\ UNCHANGED repo
       ELSE /\ UNCHANGED <<exc, firstFailure, wf>>
            /\ repo' = okRepo
            /\ pc' = okPc

\* line 484
restore_clean1 ==
    /\ pc = "restore_clean1"
    /\ RestoreFrame
    /\ \E rc \in GitCodes :
         RestoreStep("git clean -fdx", "first", rc, git_clean_fdx(repo), "restore_checkout_commit")

\* a branch is restored only when one was checked out (line 486)
restore_branch_needed_always(branch) == branch # ""

restore_branch_needed(branch) == branch # "" /\ branch # "HEAD"

\* line 485
restore_checkout_commit ==
    /\ pc = "restore_checkout_commit"
    /\ RestoreFrame
    /\ \E rc \in GitCodes :
         RestoreStep("git checkout", original_commit, rc, git_checkout(repo, original_commit),
                     IF restore_branch_needed(original_branch)
                     THEN "restore_checkout_branch" ELSE "restore_clean2")

\* line 487
restore_checkout_branch ==
    /\ pc = "restore_checkout_branch"
    /\ RestoreFrame
    /\ \E rc \in GitCodes :
         RestoreStep("git checkout", original_branch, rc, git_checkout(repo, original_branch),
                     "restore_reset")

\* line 488
restore_reset ==
    /\ pc = "restore_reset"
    /\ RestoreFrame
    /\ \E rc \in GitCodes :
         RestoreStep("git reset --hard", original_commit, rc,
                     git_reset_hard(repo, original_commit), "restore_clean2")

\* line 489
restore_clean2 ==
    /\ pc = "restore_clean2"
    /\ RestoreFrame
    /\ \E rc \in GitCodes :
         RestoreStep("git clean -fdx", "last", rc, git_clean_fdx(repo), "finally_end")

\* the end of the finally clause: the exception in flight, if any, propagates;
\* otherwise the workflow goes on to line 589
finally_end ==
    /\ pc = "finally_end"
    /\ RestoreFrame
    /\ UNCHANGED <<repo, exc, firstFailure, log>>
    /\ IF exc.kind # "none"
       THEN pc' = "main_except" /\ wf' = "raised"
       ELSE IF Len(args.tags) >= 2
       THEN pc' = "compare" /\ wf' = wf
       ELSE pc' = "main_return" /\ wf' = "returned"

\* line 510: the report is results_root / "comparison_<baseline>_vs_<latest>.md"; a
\* "/" in a tag makes it a file in a directory that nothing has created
comparison_dir_exists(baseline_tag, latest_tag) ==
    baseline_tag \notin SlashTags /\ latest_tag \notin SlashTags

\* lines 589-595.  compare_summaries returns at line 501 when a summary is missing;
\* otherwise it opens the report for writing (line 511), which raises
\* FileNotFoundError when the directory of the report does not exist.
workflow_compare ==
    /\ pc = "compare"
    /\ FlowFrame
    /\ UNCHANGED <<linuxExists, repo, original_commit, original_branch, build_tool,
                   path_tools, tagIdx, summaries, stored, log>>
    /\ \E baseline_tag \in {args.tags[1]}, latest_tag \in {args.tags[Len(args.tags)]} :
         IF /\ baseline_tag \in DOMAIN summaries /\ latest_tag \in DOMAIN summaries
            /\ ~comparison_dir_exists(baseline_tag, latest_tag)
         THEN /\ Raise(OtherError("FileNotFoundError"))
              /\ pc' = "main_except"
              /\ wf' = "raised"
              /\ UNCHANGED report
         ELSE /\ report' = compare_summaries(summaries, baseline_tag, latest_tag)
              /\ pc' = "main_return"
              /\ wf' = "returned"
              /\ UNCHANGED <<exc, firstFailure>>

(***************************************************************************)
(* The program: main on one command line, in one environment.              *)
(***************************************************************************)
TagSeqs == UNION {[1..n -> TagNames] : n \in 1..MaxTags}

\* parse_args, lines 598-663: the command lines of the model
KernelArgs ==
    {[mode |-> "kernel", tags |-> t, force_rebuild |-> FALSE, reuse_cdb |-> r, keep_cdb |-> k] :
        t \in TagSeqs, r \in BOOLEAN, k \in BOOLEAN}
OneTagArgs(force) ==
    [mode |-> "kernel", tags |-> <<"v5.9">>, force_rebuild |-> force, reuse_cdb |-> FALSE,
     keep_cdb |-> FALSE]
SlashArgs ==
    [mode |-> "kernel", tags |-> <<"next/master", "v5.9">>, force_rebuild |-> FALSE,
     reuse_cdb |-> FALSE, keep_cdb |-> FALSE]
\* two refs whose names differ by "/" and "_" only, with --reuse-cdb
CollidingArgs ==
    [mode |-> "kernel", tags |-> <<"next/master", "next_master">>, force_rebuild |-> FALSE,
     reuse_cdb |-> TRUE, keep_cdb |-> FALSE]
SmokeArgs ==
    [mode |-> "smoke", tags |-> <<"v5.9", "v5.17">>, force_rebuild |-> FALSE,
     reuse_cdb |-> FALSE, keep_cdb |-> FALSE]

\* The runs of the model: every kernel command line in an environment where the
\* submodule is checked out and the checker is built; and the one-tag and smoke
\* command lines in every environment (source missing or not, artifact missing or
\* not, submodule missing or not, rebuild forced or not).
Scenarios ==
    {[args |-> a, linux |-> TRUE, src |-> TRUE, lib |-> TRUE] :
        a \in KernelArgs \cup {SlashArgs, CollidingArgs}}
    \cup {[args |-> OneTagArgs(f), linux |-> l, src |-> s, lib |-> b] :
            f \in BOOLEAN, l \in BOOLEAN, s \in BOOLEAN, b \in BOOLEAN}
    \cup {[args |-> SmokeArgs, linux |-> TRUE, src |-> s, lib |-> b] :
            s \in BOOLEAN, b \in BOOLEAN}

\* the databases an earlier run has left under the results directory
StoredBefore == {<< >>, [d \in {TagDir(t) : t \in TagNames} |-> "old"]}

\* the checker's files when main starts: the source written at time 1 or missing,
\* the artifact missing or as new as the source (SpecBuild has the other cases)
BuildStart(src, lib) ==
    /\ now = 1
    /\ srcExists = src
    /\ srcMtime = 1
    /\ libExists = lib
    /\ libMtime = (IF lib THEN 1 ELSE 0)
    /\ compiles = 0
    /\ calls = 0
    /\ sinceOk = FALSE
    /\ lastBuild = NoBuild

FlowStart(a, linux) ==
    /\ pc = "main"
    /\ args = a
    /\ linuxExists = linux
    /\ repo \in {[head |-> OrigCommit, branch |-> b, tip |-> OrigCommit, modified |-> FALSE,
                  untracked |-> FALSE, cdb |-> "none"] : b \in {Detached, BranchName}}
    /\ original_commit = ""
    /\ original_branch = ""
    /\ build_tool = ""
    /\ path_tools = [looked |-> FALSE, present |-> {}]
    /\ tagIdx = 1
    /\ summaries = << >>
    /\ stored \in StoredBefore
    /\ report = [written |-> FALSE]
    /\ exc = NoExc
    /\ firstFailure = NoExc
    /\ log = << >>
    /\ wf = "idle"
    /\ stderrOut = << >>
    /\ exitCode = None

\* no program is running (the other specifications)
FlowIdle ==
    /\ pc = "idle"
    /\ args = [mode |-> "none", tags |-> << >>, force_rebuild |-> FALSE,
               reuse_cdb |-> FALSE, keep_cdb |-> FALSE]
    /\ linuxExists = FALSE
    /\ repo = [head |-> OrigCommit, branch |-> Detached, tip |-> OrigCommit,
               modified |-> FALSE, untracked |-> FALSE, cdb |-> "none"]
    /\ original_commit = ""
    /\ original_branch = ""
    /\ build_tool = ""
    /\ path_tools = [looked |-> FALSE, present |-> {}]
    /\ tagIdx = 1
    /\ summaries = << >>
    /\ stored = << >>
    /\ report = [written |-> FALSE]
    /\ exc = NoExc
    /\ firstFailure = NoExc
    /\ log = << >>
    /\ wf = "idle"
    /\ stderrOut = << >>
    /\ exitCode = None

\* compare_summaries, extract_warnings and run_static_analyzer are not running on
\* their own
CompareIdle == cmpSummaries = << >> /\ cmpCall = << >> /\ cmpReport = [written |-> FALSE]
ProbeIdle == probe = None /\ probeOut = << >>
RunIdle == cmds = << >>
CaptureIdle ==
    /\ capTree = [head |-> OrigCommit, branch |-> Detached, tip |-> OrigCommit,
                  modified |-> FALSE, untracked |-> FALSE, cdb |-> "none"]
    /\ captures = << >>
FilterIdle == farguments = << >> /\ fargv = << >>
AnalyzerIdle ==
    /\ data = << >> /\ limit = [given |-> FALSE, n |-> 0] /\ unitIdx = 0 /\ processed = 0
    /\ diagnostics = << >> /\ warning_keys = {} /\ logs = << >>
    /\ warnings_txt = None /\ warnings_json = None /\ summaryOut = None
    /\ apc = "idle" /\ araised = NoExc /\ runs = << >>

Init ==
    /\ \E sc \in Scenarios : FlowStart(sc.args, sc.linux) /\ BuildStart(sc.src, sc.lib)
    /\ CompareIdle /\ ProbeIdle /\ AnalyzerIdle /\ RunIdle /\ CaptureIdle /\ FilterIdle
    /\ FsStart

Next ==
    \/ main_build_checker
    \/ run_smoke_tests
    \/ ensure_linux_submodule
    \/ submodule_missing
    \/ git_fetch_tags
    \/ record_original_commit
    \/ record_original_branch
    \/ results_root_mkdir
    \/ select_build_tool
    \/ tag_checkout
    \/ tag_reset
    \/ tag_clean
    \/ tag_cdb
    \/ tag_mrproper
    \/ tag_defconfig
    \/ tag_capture
    \/ tag_analyze
    \/ restore_clean1
    \/ restore_checkout_commit
    \/ restore_checkout_branch
    \/ restore_reset
    \/ restore_clean2
    \/ finally_end
    \/ workflow_compare
    \/ main_except
    \/ main_return

Spec == Init /\ [][Next]_vars

(***************************************************************************)
(* SpecBuild: build_checker called again and again while time passes and   *)
(* the source is regenerated.  File times are readings of one clock.       *)
(***************************************************************************)
BuildFilesStart ==
    /\ now = 1
    /\ srcExists \in BOOLEAN
    /\ srcMtime \in (IF srcExists THEN 0..1 ELSE {0})
    /\ libExists \in BOOLEAN
    /\ libMtime \in (IF libExists THEN 0..1 ELSE {0})
    /\ compiles = 0
    /\ calls = 0
    /\ sinceOk = FALSE
    /\ lastBuild = NoBuild

\* a caller runs build_checker(force); the compile command, if run, exits with rc
build_call ==
    /\ calls < MaxCalls
    /\ \E force \in BOOLEAN, rc \in ToolCodes : build_checker(force, rc)
    /\ UNCHANGED <<flowVars, compareVars, probeVars, analyzerVars, runVars, captureVars, filterVars, fsVars>>

\* the generation stage writes GeneratedNPDChecker.cpp (line 37)
write_source ==
    /\ srcExists' = TRUE
    /\ srcMtime' = now
    /\ sinceOk' = FALSE
    /\ UNCHANGED <<libExists, libMtime, now, compiles, calls, lastBuild>>
    /\ UNCHANGED <<flowVars, compareVars, probeVars, analyzerVars, runVars, captureVars, filterVars, fsVars>>

\* time passes
tick ==
    /\ now < MaxTime
    /\ now' = now + 1
    /\ UNCHANGED <<srcExists, srcMtime, libExists, libMtime, compiles, calls, sinceOk, lastBuild>>
    /\ UNCHANGED <<flowVars, compareVars, probeVars, analyzerVars, runVars, captureVars, filterVars, fsVars>>

InitBuild ==
    /\ FlowIdle /\ BuildFilesStart /\ CompareIdle /\ ProbeIdle /\ AnalyzerIdle /\ RunIdle
    /\ CaptureIdle /\ FilterIdle /\ FsStart
NextBuild == build_call \/ write_source \/ tick
SpecBuild == InitBuild /\ [][NextBuild]_vars

(***************************************************************************)
(* run_static_analyzer, lines 301-423.  An entry of compile_commands.json  *)
(* is [keys, file, directory, arguments, command]: keys holds the keys the *)
(* JSON object has, the other fields their values (empty for a missing     *)
(* key).  Strings are sequences of character codes.                        *)
(***************************************************************************)
\* the repo argument: <project>/linux, which may be a symbolic link (here /w -> /r)
LINUX_DIR == Path(<<47,119>>)   \* "/w"
\* str(checker_so)
CHECKER_LIBRARY == <<47,112,47,108,105,98,78,80,68,67,104,101,99,107,101,114,46,115,111>>   \* "/p/libNPDChecker.so"
CHECKER_NAME == <<115,113,117,105,114,101,46,78,80,68,67,104,101,99,107,101,114>>   \* "squire.NPDChecker"
HasKey(entry, k) == k \in entry.keys

\* lines 330-334: the entry names a C or C++ source file
source_file(entry) ==
    /\ HasKey(entry, "file")
    /\ entry.file # << >>
    /\ \E suf \in {<<46,99>>, <<46,99,99>>, <<46,99,112,112>>} : EndsWith(entry.file, suf)   \* ".c", ".cc", ".cpp"

\* shlex.split(s) for a command line without quotes and escapes: the words between
\* the blanks
NotBlank == {c \in 0..127 : c \notin Whitespace}

RECURSIVE WordsFrom(_, _)
WordsFrom(s, i) ==
    With(i + RunLen(s, i, Whitespace), LAMBDA b :
         IF b > Len(s) THEN << >>
         ELSE With(b + RunLen(s, b, NotBlank), LAMBDA e :
                   <<SubSeq(s, b, e - 1)>> \o WordsFrom(s, e)))

shlex_split(s) == WordsFrom(s, 1)

\* line 339: the entry has a non-empty "arguments" list
has_arguments(entry) == HasKey(entry, "arguments") /\ entry.arguments # << >>

\* line 342 raises KeyError: no usable "arguments" and no "command"
command_missing(entry) == ~has_arguments(entry) /\ ~HasKey(entry, "command")

\* lines 338-342, for an entry where line 342 does not raise
entry_arguments(entry) ==
    IF has_arguments(entry) THEN entry.arguments ELSE shlex_split(entry.command)

\* line 336
directory_of(entry, repo_dir) ==
    IF HasKey(entry, "directory") THEN Path(entry.directory) ELSE repo_dir

\* -o<file> taken for an argument to keep
joined_output_never(arg) == FALSE

\* line 364: arg.startswith("-o")
joined_output(arg) == StartsAt(arg, 1, <<45,111>>)   \* "-o"

\* lines 355-367: -c is dropped, -o is dropped with the argument after it, -o<file>
\* is dropped
RECURSIVE filter_from(_, _, _)
filter_from(arguments, i, skip_next) ==
    IF i > Len(arguments) THEN << >>
    ELSE IF skip_next THEN filter_from(arguments, i + 1, FALSE)
    ELSE IF arguments[i] = <<45,99>> THEN filter_from(arguments, i + 1, FALSE)   \* "-c"
    ELSE IF arguments[i] = <<45,111>> THEN filter_from(arguments, i + 1, TRUE)   \* "-o"
    ELSE IF joined_output(arguments[i]) THEN filter_from(arguments, i + 1, FALSE)
    ELSE <<arguments[i]>> \o filter_from(arguments, i + 1, FALSE)

\* lines 347-367
filtered_args(arguments, checker_so) ==
    <<arguments[1], <<45,45,97,110,97,108,121,122,101>>,   \* "--analyze"
      <<45,88,99,108,97,110,103>>, <<45,108,111,97,100>>, <<45,88,99,108,97,110,103>>, checker_so,   \* "-Xclang", "-load", "-Xclang"
      <<45,88,99,108,97,110,103>>, <<45,97,110,97,108,121,122,101,114,45,99,104,101,99,107,101,114,61>> \o CHECKER_NAME,   \* "-Xclang", "-analyzer-checker="
      <<45,102,110,111,45,99,111,108,111,114,45,100,105,97,103,110,111,115,116,105,99,115>>>>   \* "-fno-color-diagnostics"
    \o filter_from(arguments, 2, FALSE)

\* line 373: check=False (and the variant that lets run_command raise)
analyzer_check_on == TRUE
analyzer_check == FALSE

\* lines 376-380
combined_output_of(result) ==
    (IF result.stdout # << >> THEN result.stdout ELSE << >>)
    \o (IF result.stderr # << >> THEN result.stderr ELSE << >>)

\* line 383 (and the variant that logs every unit that printed something)
log_needed_any_output(parsed, combined_output) == combined_output # << >>
log_needed(parsed, combined_output) == parsed # << >>

\* str.replace(old, new) for a one-character old
RECURSIVE ReplaceFrom(_, _, _, _)
ReplaceFrom(s, i, old, new) ==
    IF i > Len(s) THEN << >>
    ELSE (IF s[i] = old THEN new ELSE <<s[i]>>) \o ReplaceFrom(s, i + 1, old, new)

Replace(s, old, new) == ReplaceFrom(s, 1, old, new)

\* lines 187-194
sanitize_for_filename(fragment) ==
    With(Replace(fragment, 47, <<95,95>>), LAMBDA slashes :   \* "__"
    With(Replace(slashes, 92, <<95,95>>), LAMBDA backslashes :   \* "__"
    With(Replace(backslashes, 58, <<95>>), LAMBDA colons :   \* "_"
         Replace(colons, 32, <<95>>))))   \* "_"

\* str(n) for n >= 0
RECURSIVE Decimal(_)
Decimal(n) == IF n < 10 THEN <<48 + n>> ELSE Decimal(n \div 10) \o <<48 + (n % 10)>>

\* f"{n:05d}" for n >= 0
RECURSIVE ZeroPad(_, _)
ZeroPad(d, width) == IF Len(d) >= width THEN d ELSE ZeroPad(<<48>> \o d, width)

\* lines 384-389
log_name_of(idx, file_path, repo_dir) ==
    With(Path(file_path), LAMBDA processed_file :
    With(PathStr(RelativeToOrSelf(Resolve(processed_file), Resolve(repo_dir))), LAMBDA rel_file :
         ZeroPad(Decimal(idx), 5) \o <<95>> \o sanitize_for_filename(rel_file) \o <<46,108,111,103>>))   \* "_", ".log"

\* lines 392-395 without the test of line 393: every parsed record is appended
merge_parsed_all(merged, diag) ==
    [diagnostics |-> Append(merged.diagnostics, diag),
     warning_keys |-> merged.warning_keys \cup {diag.key}]

\* lines 393-395: one turn of the loop of line 392
merge_parsed(merged, diag) ==
    IF diag.key \notin merged.warning_keys
    THEN [diagnostics |-> Append(merged.diagnostics, diag),
          warning_keys |-> merged.warning_keys \cup {diag.key}]
    ELSE merged

\* lines 392-395: the loop over the first n records of parsed
RECURSIVE merge_first(_, _, _)
merge_first(merged, parsed, n) ==
    IF n = 0 THEN merged
    ELSE With(merge_first(merged, parsed, n - 1), LAMBDA before :
              merge_parsed(before, parsed[n]))

\* one step of list.sort(key=lambda item: item["key"]), which is stable: d goes
\* before the first record whose key is greater
InsertByKey(sorted, d) ==
    With({i \in 1..Len(sorted) : StrLess(d.key, sorted[i].key)}, LAMBDA greater :
         IF greater = {} THEN Append(sorted, d)
         ELSE With(Min(greater), LAMBDA j :
                   SubSeq(sorted, 1, j - 1) \o <<d>> \o SubSeq(sorted, j, Len(sorted))))

RECURSIVE SortFirst(_, _)
SortFirst(diags, n) ==
    IF n = 0 THEN << >>
    ELSE With(SortFirst(diags, n - 1), LAMBDA sorted : InsertByKey(sorted, diags[n]))

\* (the sort of line 405 left out)
SortByKey_skipped(diags) == diags

\* line 405
SortByKey(diags) == SortFirst(diags, Len(diags))

\* line 409
warnings_text_of(keys) ==
    With(Sorted(keys), LAMBDA lines :
         JoinWith(lines, Newline) \o (IF keys # {} THEN Newline ELSE << >>))

\* clang's rendering of a diagnostic: path:line:col: severity: message
Render(path, line, col, severity, message) ==
    path \o Colon \o line \o Colon \o col \o Colon \o Space \o severity \o Colon \o Space
    \o message \o Newline

\* what the analyzer prints for the units of the model
LineRel == Render(<<102,46,99>>, <<55>>, <<51>>, SevWarning, Marker)   \* "f.c", "7", "3"
LineRelOtherColumn == Render(<<102,46,99>>, <<55>>, <<57>>, SevWarning, Marker)   \* "f.c", "7", "9"
LineAbs == Render(<<47,119,47,115,47,102,46,99>>, <<55>>, <<53>>, SevError, Marker)   \* "/w/s/f.c", "7", "5"
LineOther == Render(<<103,46,99>>, <<49,50>>, <<49>>, SevWarning, Marker \o <<32,40,112,41>>)   \* "g.c", "12", "1", " (p)"
\* a diagnostic of another checker, and a line with the marker that is no diagnostic
LineUnrelated == Render(<<102,46,99>>, <<55>>, <<51>>, SevWarning, <<117,110,117,115,101,100,32,118,97,114,105,97,98,108,101>>)   \* "f.c", "7", "3", "unused variable"
LineMalformed == <<110,111,116,101,58,32>> \o Marker \o Newline   \* "note: "

\* <<stdout, stderr>> of an analyzer invocation
AnalyzerOutputs ==
    {<<<< >>, << >>>>,
     <<<< >>, LineRel \o LineRelOtherColumn>>,
     <<LineOther, LineUnrelated \o LineAbs>>,
     <<<< >>, LineUnrelated \o LineMalformed>>}

\* exit codes of clang --analyze
AnalyzerCodes == {0, 1}

NoKey == << >>
Entry(keys, file, directory, arguments, command) ==
    [keys |-> keys, file |-> file, directory |-> directory, arguments |-> arguments,
     command |-> command]

AllKeys == {"file", "directory", "arguments", "command"}

\* the entries a compile database of the model is made of
EntryPool ==
    {Entry({"file", "directory", "arguments"}, <<47,114,47,115,47,102,46,99>>, <<47,114,47,115>>,   \* "/r/s/f.c", "/r/s"
           <<<<103,99,99>>, <<45,99>>, <<45,111>>, <<102,46,111>>, <<45,79,50>>, <<102,46,99>>>>, NoKey),   \* "gcc", "-c", "-o", "f.o", "-O2", "f.c"
     Entry({"file", "directory", "command"}, <<47,119,47,115,47,103,46,99>>, <<47,119,47,115>>,   \* "/w/s/g.c", "/w/s"
           << >>, <<103,99,99,32,45,99,32,45,111,103,46,111,32,103,46,99>>),   \* "gcc -c -og.o g.c"
     Entry({"file", "directory", "command"}, <<47,114,47,115,47,102,46,104>>, <<47,114,47,115>>, << >>, <<103,99,99,32,45,99,32,102,46,104>>),   \* "/r/s/f.h", "/r/s", "gcc -c f.h"
     Entry({"directory", "command"}, NoKey, <<47,114,47,115>>, << >>, <<103,99,99,32,45,99,32,102,46,99>>),   \* "/r/s", "gcc -c f.c"
     Entry({"file", "directory", "arguments", "command"}, <<47,114,47,115,47,102,46,99>>, <<47,114,47,115>>, << >>, << >>),   \* "/r/s/f.c", "/r/s"
     Entry({"file", "directory"}, <<47,114,47,115,47,102,46,99>>, <<47,114,47,115>>, << >>, NoKey)}   \* "/r/s/f.c", "/r/s"

AnalyzerTag == "v5.9"

\* line 328
limit_reached == limit.given /\ processed >= limit.n

AnalyzerFrame ==
    /\ UNCHANGED <<data, limit>>
    /\ UNCHANGED <<flowVars, buildVars, compareVars, probeVars, runVars, captureVars, filterVars, fsVars>>

\* lines 330-345: the entry is passed over
analyzer_skip ==
    /\ apc = "loop"
    /\ unitIdx < Len(data)
    /\ ~limit_reached
    /\ LET entry == data[unitIdx + 1] IN
       \/ ~source_file(entry)
       \/ /\ ~command_missing(entry)
          /\ entry_arguments(entry) = << >>
    /\ unitIdx' = unitIdx + 1
    /\ AnalyzerFrame
    /\ UNCHANGED <<processed, diagnostics, warning_keys, logs, warnings_txt, warnings_json,
                   summaryOut, apc, araised, runs>>

\* line 342: entry["command"] raises KeyError, which nothing in the function catches
analyzer_keyerror ==
    /\ apc = "loop"
    /\ unitIdx < Len(data)
    /\ ~limit_reached
    /\ source_file(data[unitIdx + 1])
    /\ command_missing(data[unitIdx + 1])
    /\ apc' = "raised"
    /\ araised' = OtherError("KeyError")
    /\ AnalyzerFrame
    /\ UNCHANGED <<unitIdx, processed, diagnostics, warning_keys, logs, warnings_txt,
                   warnings_json, summaryOut, runs>>

\* lines 347-397: the analyzer is run for the entry.  subprocess.run raises when the
\* compiler cannot be started; otherwise the process ends with some exit code and
\* some output.
analyzer_unit ==
    /\ apc = "loop"
    /\ unitIdx < Len(data)
    /\ ~limit_reached
    /\ source_file(data[unitIdx + 1])
    /\ ~command_missing(data[unitIdx + 1])
    /\ entry_arguments(data[unitIdx + 1]) # << >>
    /\ AnalyzerFrame
    /\ UNCHANGED <<warnings_txt, warnings_json, summaryOut>>
    /\ \E entry \in {data[unitIdx + 1]} :
       \E directory \in {directory_of(entry, LINUX_DIR)} :
       \E arguments \in {entry_arguments(entry)} :
       \E argv \in {filtered_args(arguments, CHECKER_LIBRARY)} :
       \/ /\ apc' = "raised"
          /\ araised' = OtherError("FileNotFoundError")
          /\ UNCHANGED <<unitIdx, processed, diagnostics, warning_keys, logs, runs>>
       \/ \E rc \in AnalyzerCodes, out \in AnalyzerOutputs :
          \E call \in {run_command(Proc(rc, out, TRUE), TRUE, analyzer_check)} :
          IF call.raised
          THEN /\ apc' = "raised"
               /\ araised' = call.exc
               /\ UNCHANGED <<unitIdx, processed, diagnostics, warning_keys, logs, runs>>
          ELSE
          \E result \in {call.result} :
          \E combined_output \in {combined_output_of(result)} :
          \E parsed \in {extract_warnings(combined_output, LINUX_DIR, directory)} :
          \E logging \in {log_needed(parsed, combined_output)} :
          \E log_name \in {IF logging THEN log_name_of(unitIdx, entry.file, LINUX_DIR)
                            ELSE << >>} :
          \E merged \in {merge_first([diagnostics |-> diagnostics,
                                       warning_keys |-> warning_keys], parsed, Len(parsed))} :
          /\ logs' = IF logging THEN (log_name :> combined_output) @@ logs ELSE logs
          /\ diagnostics' = merged.diagnostics
          /\ warning_keys' = merged.warning_keys
          /\ processed' = processed + 1
          /\ unitIdx' = unitIdx + 1
          /\ runs' = Append(runs, [idx |-> unitIdx, cwd |-> directory, argv |-> argv,
                                   returncode |-> result.returncode,
                                   stdout |-> result.stdout, stderr |-> result.stderr,
                                   parsed |-> parsed,
                                   log |-> log_name])
          /\ UNCHANGED <<apc, araised>>

\* lines 327-329 and 405-423: the loop ends (no entry is left, or the limit is
\* reached); the diagnostics are sorted, the two files written, the summary returned
analyzer_finish ==
    /\ apc = "loop"
    /\ unitIdx = Len(data) \/ limit_reached
    /\ diagnostics' = SortByKey(diagnostics)
    /\ warnings_txt' = warnings_text_of(warning_keys)
    /\ warnings_json' = diagnostics'
    /\ summaryOut' = AnalysisSummary(AnalyzerTag, warning_keys)
    /\ apc' = "done"
    /\ AnalyzerFrame
    /\ UNCHANGED <<unitIdx, processed, warning_keys, logs, araised, runs>>

\* the compile databases and limits of the model
RECURSIVE SeqsUpTo(_, _)
SeqsUpTo(S, n) ==
    IF n = 0 THEN {<< >>}
    ELSE With(SeqsUpTo(S, n - 1), LAMBDA shorter :
              shorter \cup {Append(s, x) : s \in shorter, x \in S})

NoLimit == [given |-> FALSE, n |-> 0]
Limits == {NoLimit} \cup {[given |-> TRUE, n |-> n] : n \in 0..MaxLimit}

BuildIdle == BuildStart(FALSE, FALSE)

InitAnalyzer ==
    /\ FlowIdle /\ BuildIdle /\ CompareIdle /\ ProbeIdle /\ RunIdle /\ CaptureIdle /\ FilterIdle
    /\ FsStart
    /\ data \in SeqsUpTo(EntryPool, MaxUnits)
    /\ limit \in Limits
    /\ unitIdx = 0 /\ processed = 0
    /\ diagnostics = << >> /\ warning_keys = {} /\ logs = << >>
    /\ warnings_txt = None /\ warnings_json = None /\ summaryOut = None
    /\ apc = "loop" /\ araised = NoExc /\ runs = << >>

NextAnalyzer == analyzer_skip \/ analyzer_keyerror \/ analyzer_unit \/ analyzer_finish
SpecAnalyzer == InitAnalyzer /\ [][NextAnalyzer]_vars

(***************************************************************************)
(* SpecCompare: compare_summaries called once on a summaries dict.         *)
(***************************************************************************)
\* "/o/g.c:2:Possible NULL dereference", "f.c:2:Possible NULL dereference (p)"
KeyOutside == <<47,111,47,103,46,99,58,50,58>> \o Marker   \* "/o/g.c:2:"
KeyLonger == KeyB \o <<32,40,112,41>>   \* " (p)"
KeyPool == {KeyA, KeyB, KeyLonger, KeyOutside}

BaselineTag == "v5.9"
LatestTag == "v5.17"

\* the dicts compare_summaries is given: both summaries, or one of them, or none
CompareDicts ==
    {(BaselineTag :> AnalysisSummary(BaselineTag, b)) @@ (LatestTag :> AnalysisSummary(LatestTag, l)) :
        b \in SUBSET KeyPool, l \in SUBSET KeyPool}
    \cup {(t :> AnalysisSummary(t, {KeyA})) : t \in TagNames}
    \cup {<< >>}

compare_call ==
    /\ cmpCall = << >>
    /\ \E baseline_tag \in TagNames, latest_tag \in TagNames :
       /\ cmpCall' = <<baseline_tag, latest_tag>>
       /\ cmpReport' = compare_summaries(cmpSummaries, baseline_tag, latest_tag)
    /\ UNCHANGED cmpSummaries
    /\ UNCHANGED <<flowVars, buildVars, probeVars, analyzerVars, runVars, captureVars, filterVars, fsVars>>

InitCompare ==
    /\ FlowIdle /\ BuildIdle /\ ProbeIdle /\ AnalyzerIdle /\ RunIdle /\ CaptureIdle /\ FilterIdle
    /\ FsStart
    /\ cmpSummaries \in CompareDicts
    /\ cmpCall = << >>
    /\ cmpReport = [written |-> FALSE]

NextCompare == compare_call
SpecCompare == InitCompare /\ [][NextCompare]_vars

(***************************************************************************)
(* SpecExtract: extract_warnings given two lines that name one file, the   *)
(* first by a path relative to the invocation directory, the second by an  *)
(* absolute path.                                                          *)
(***************************************************************************)
ProbeRoots == {<<47,114>>, <<47,119>>}   \* "/r", "/w"
ProbeDirs == {<<47,114>>, <<47,114,47,115>>, <<47,119,47,115>>, <<47,114,47,115,47,46,46>>, <<47,111>>}   \* "/r", "/r/s", "/w/s", "/r/s/..", "/o"
ProbeRels == {<<102,46,99>>, <<46,47,115,47,102,46,99>>, <<46,46,47,102,46,99>>, <<46,46,47,114,47,102,46,99>>, <<46,46,47,119,47,115,47,102,46,99>>, <<46,46,47,111,47,102,46,99>>}   \* "f.c", "./s/f.c", "../f.c", "../r/f.c", "../w/s/f.c", "../o/f.c"

\* the absolute names of the file rel names from directory: the two joined, and the
\* canonical path
AbsoluteName(directory, rel, form) ==
    IF form = "joined" THEN directory \o Slash \o rel
    ELSE PathStr(Resolve(Path(directory \o Slash \o rel)))

extract_probe ==
    /\ probeOut = << >>
    /\ LET repo_root == Path(probe.repo_root)
           entry_directory == Path(probe.directory)
           relative == Render(probe.rel, <<55>>, <<51>>, SevWarning, Marker)   \* "7", "3"
           absolute == Render(AbsoluteName(probe.directory, probe.rel, probe.form),
                              <<55>>, <<57>>, SevError, Marker)   \* "7", "9"
       IN probeOut' = <<extract_warnings(relative, repo_root, entry_directory),
                        extract_warnings(absolute, repo_root, entry_directory)>>
    /\ UNCHANGED probe
    /\ UNCHANGED <<flowVars, buildVars, compareVars, analyzerVars, runVars, captureVars, filterVars, fsVars>>

InitExtract ==
    /\ FlowIdle /\ BuildIdle /\ CompareIdle /\ AnalyzerIdle /\ RunIdle /\ CaptureIdle /\ FilterIdle
    /\ FsStart
    /\ probe \in [repo_root : ProbeRoots, directory : ProbeDirs, rel : ProbeRels,
                  form : {"joined", "canonical"}]
    /\ probeOut = << >>

NextExtract == extract_probe
SpecExtract == InitExtract /\ [][NextExtract]_vars

(***************************************************************************)
(* What the claims speak of.                                               *)
(***************************************************************************)
\* run_kernel_workflow was entered and has been left (returned or raised)
WorkflowLeft == wf # "idle" /\ pc \in {"main_except", "main_return", "exited"}

\* restore_linux_repo was called: its first command has run
RestoreEntered == \E i \in 1..Len(log) : log[i].phase = "restore"

\* restore_linux_repo ran to its end: its last command succeeded
RestoreCompleted ==
    \E i \in 1..Len(log) :
        log[i].phase = "restore" /\ log[i].op = "git clean -fdx" /\ log[i].arg = "last"
        /\ log[i].rc = 0

TreeClean(r) == ~r.modified /\ ~r.untracked /\ r.cdb = "none"

\* C1 (restoration invariant): when run_kernel_workflow exits, HEAD is the commit
\* recorded before the run and the working tree is clean.  Stated here for the runs
\* most favourable to the claim, those in which every command of the restoration
\* succeeded; the code violates it when the submodule was at a detached HEAD and a
\* build modified a tracked file: restore_linux_repo resets only a named branch.
C1_RestorationInvariant ==
    (WorkflowLeft /\ RestoreCompleted) =>
        (repo.head = original_commit /\ TreeClean(repo))

\* C2 as claimed: once the original commit and branch are recorded, every exit of
\* the workflow has executed restore_linux_repo.  Violated: lines 563-567 (the
\* results directory, the capture-tool lookup) run after the recording and before
\* the try block.
C2_RestoreAfterRecording ==
    (WorkflowLeft /\ original_commit # "" /\ original_branch # "") => RestoreEntered

\* C2 as amended: once the capture tool is found (the try block of line 569 is
\* entered), every exit of the workflow, by return or by a raised failure, has
\* executed restore_linux_repo.
C2_RestoreOnGuardedExit ==
    (WorkflowLeft /\ build_tool # "") => RestoreEntered

\* the workflow was left by a failure raised inside the try block, after restoration
C2_Witness ==
    /\ WorkflowLeft /\ build_tool # "" /\ RestoreEntered
    /\ firstFailure.kind = "CommandError"
    /\ \E i \in 1..Len(log) : log[i].phase = "tag" /\ log[i].rc # 0

\* what C9 says main writes and exits with, given the failure that aborted the run
ClaimedExit ==
    IF firstFailure.kind = "none" THEN 0
    ELSE IF firstFailure.kind = "CommandError"
    THEN (IF firstFailure.returncode # 0 THEN firstFailure.returncode ELSE 1)
    ELSE 1

\* C9 (exit behaviour): the process exits with the exit code of the command whose
\* failure aborted the pipeline, with 1 after any other failure, with 0 after none.
\* Violated: a failure of a restoration command in the finally clause replaces
\* the failure that aborted the tag loop.
C9_ExitMirrorsFailure ==
    pc = "exited" => exitCode = ClaimedExit

\* the steps of a tag that configure, capture or analyse
WorkOps == {"make mrproper", "make defconfig", "intercept-build", "bear", "copy2",
            "run_static_analyzer"}

\* every work step of a tag comes after successful first, second, third commands
\* of that tag, in this order; tags are processed in list order
TagStep(j, k, op) ==
    log[j].phase = "tag" /\ log[j].k = k /\ log[j].op = op /\ log[j].rc = 0

TagStepsOrdered(first, second, third) ==
    /\ \A i \in 1..Len(log) :
         (log[i].phase = "tag" /\ log[i].op \in WorkOps) =>
            \E c \in 1..(i - 1) :
                /\ TagStep(c, log[i].k, third)
                /\ \E b \in 1..(c - 1) :
                     /\ TagStep(b, log[i].k, second)
                     /\ \E a \in 1..(b - 1) : TagStep(a, log[i].k, first)
    /\ \A j \in 2..Len(log) :
         (log[j - 1].phase = "tag" /\ log[j].phase = "tag") => log[j - 1].k <= log[j].k
    /\ \A i \in 1..Len(log) :
         (log[i].phase = "tag" /\ log[i].op = "git checkout") => log[i].arg = args.tags[log[i].k]

\* C10 as claimed: per tag, hard-clean, then checkout, then hard-reset, before any
\* configuration, capture or analysis step.  Violated: the code cleans last.
C10_CleanCheckoutReset ==
    TagStepsOrdered("git clean -fdx", "git checkout", "git reset --hard")

\* C10 as amended: per tag, in list order, checkout of the tag, then hard-reset to
\* HEAD, then hard-clean, before any configuration, capture or analysis step.
C10_CheckoutResetClean ==
    TagStepsOrdered("git checkout", "git reset --hard", "git clean -fdx")

\* the second tag of the list has been analysed
C10_Witness ==
    \E i \in 1..Len(log) :
        log[i].phase = "tag" /\ log[i].k = 2 /\ log[i].op = "run_static_analyzer"

\* C7 (idempotent build): after a successful build_checker call, a call with
\* force=false and the source not written since runs no compile command and
\* leaves the artifact and its modification time as they were.
C7_IdempotentBuild ==
    (lastBuild.outcome # "none" /\ lastBuild.repeat /\ ~lastBuild.force) =>
        /\ lastBuild.outcome = "reused"
        /\ ~lastBuild.ran
        /\ lastBuild.libExists /\ libExists
        /\ libMtime = lastBuild.libMtime

\* a first call compiled the artifact, time passed, and a second call with
\* force=false reused it
C7_Witness ==
    /\ calls >= 2 /\ compiles = 1
    /\ lastBuild.repeat /\ ~lastBuild.force /\ lastBuild.outcome = "reused"
    /\ now > libMtime

(***************************************************************************)
(* run_static_analyzer, compare_summaries and extract_warnings             *)
(***************************************************************************)
Elems(seq) == {seq[i] : i \in DOMAIN seq}

\* the keys extract_warnings finds in what one analyzed unit printed
UnitKeys(run) ==
    {d.key : d \in Elems(extract_warnings(run.stdout \o run.stderr, LINUX_DIR, run.cwd))}

\* C3: no exit code of an analyzer invocation makes run_static_analyzer raise (what
\* leaves it by an exception is never a CommandError), and the summary it returns
\* holds exactly the union of the keys extracted from the output of every analyzed
\* unit, those that exited non-zero included.
C3_UnitFailureIsolation ==
    /\ apc = "raised" => araised.kind # "CommandError"
    /\ apc = "done" =>
          /\ summaryOut.tag = AnalyzerTag
          /\ summaryOut.warnings = UNION {UnitKeys(runs[i]) : i \in DOMAIN runs}

\* the function returned after a unit that exited non-zero contributed a key that
\* no other unit reported, next to a unit that exited zero
C3_Witness ==
    /\ apc = "done"
    /\ \E i \in DOMAIN runs :
       /\ runs[i].returncode # 0
       /\ \E k \in UnitKeys(runs[i]) :
          \A j \in DOMAIN runs : j # i => k \notin UnitKeys(runs[j])
    /\ \E j \in DOMAIN runs : runs[j].returncode = 0 /\ UnitKeys(runs[j]) # {}

\* a is before b in lexicographic order: at the first position where they differ a
\* has ended or holds the smaller character
LexBefore(a, b) ==
    \E i \in 1..Len(b) :
       /\ i <= Len(a) + 1
       /\ SubSeq(a, 1, i - 1) = SubSeq(b, 1, i - 1)
       /\ i = Len(a) + 1 \/ a[i] < b[i]

Ascending(seq) == \A i \in 1..(Len(seq) - 1) : LexBefore(seq[i], seq[i + 1])

\* C4: whenever compare_summaries writes its report, fixed lists baseline \ latest,
\* persistent the intersection and regressions latest \ baseline, each in ascending
\* lexicographic order without repetition; the three are pairwise disjoint and
\* together hold every key of the two summaries.
C4_SetComparison ==
    (cmpCall # << >> /\ cmpReport.written) =>
        LET baseline == cmpSummaries[cmpCall[1]].warnings
            latest == cmpSummaries[cmpCall[2]].warnings
            fixed == cmpReport.fixed
            persistent == cmpReport.persistent
            regressions == cmpReport.regressions
        IN
        /\ Elems(fixed) = baseline \ latest
        /\ Elems(persistent) = baseline \cap latest
        /\ Elems(regressions) = latest \ baseline
        /\ Ascending(fixed) /\ Ascending(persistent) /\ Ascending(regressions)
        /\ Elems(fixed) \cap Elems(persistent) = {}
        /\ Elems(fixed) \cap Elems(regressions) = {}
        /\ Elems(persistent) \cap Elems(regressions) = {}
        /\ Elems(fixed) \cup Elems(persistent) \cup Elems(regressions) = baseline \cup latest

\* a comparison of two different summaries where each list holds a key and the
\* persistent one holds two that a numeric order of line numbers would swap
C4_Witness ==
    /\ cmpCall = <<BaselineTag, LatestTag>>
    /\ cmpReport.written
    /\ cmpReport.fixed = <<KeyOutside>>
    /\ cmpReport.persistent = <<KeyA, KeyB>>
    /\ cmpReport.regressions = <<KeyLonger>>

\* two records name the same place: equal file, line and message
SamePlace(a, b) == a.file = b.file /\ a.line = b.line /\ a.message = b.message

\* the lines of a text that carry a diagnostic of the checker
MatchingLines(text) ==
    With(SplitLines(text), LAMBDA lines :
         {i \in DOMAIN lines :
             /\ Contains(lines[i], Marker)
             /\ pattern_match(Strip(lines[i])).ok})

\* every record extract_warnings returned for the units analyzed so far, in order
RECURSIVE ParsedUpTo(_)
ParsedUpTo(n) == IF n = 0 THEN << >> ELSE ParsedUpTo(n - 1) \o runs[n].parsed

\* the first record of seq with key k
FirstWithKey(seq, k) == seq[Min({i \in DOMAIN seq : seq[i].key = k})]

\* C5 as the specification states it: extract_warnings never returns two records
\* that differ in their column only, so that a text with two such lines yields one.
C5_ExtractorYieldsOne ==
    \A r \in DOMAIN runs :
       \A a, b \in DOMAIN runs[r].parsed :
          (a # b /\ SamePlace(runs[r].parsed[a], runs[r].parsed[b])) =>
              runs[r].parsed[a].column = runs[r].parsed[b].column

\* C5, corrected: extract_warnings returns one record for each matching line, so two
\* lines that differ in their column only give two records with one key; it is
\* run_static_analyzer that keeps one record per key, the first it met, in
\* diagnostics and warning_keys.
C5_DriverDeduplicates ==
    /\ \A r \in DOMAIN runs :
          Len(runs[r].parsed) = Cardinality(MatchingLines(runs[r].stdout \o runs[r].stderr))
    /\ \A i, j \in DOMAIN diagnostics : i # j => diagnostics[i].key # diagnostics[j].key
    /\ {diagnostics[i].key : i \in DOMAIN diagnostics} = warning_keys
    /\ \E met \in {ParsedUpTo(Len(runs))} :
          /\ warning_keys = {met[i].key : i \in DOMAIN met}
          /\ \A i \in DOMAIN diagnostics :
                diagnostics[i] = FirstWithKey(met, diagnostics[i].key)

\* a unit printed the same diagnostic at columns 3 and 9: extract_warnings returned
\* both, and the function has returned with the one of column 3 only
C5_Witness ==
    /\ apc = "done"
    /\ \E r \in DOMAIN runs :
          /\ Len(runs[r].parsed) = 2
          /\ SamePlace(runs[r].parsed[1], runs[r].parsed[2])
          /\ runs[r].parsed[1].key = runs[r].parsed[2].key
          /\ runs[r].parsed[1].column = 3 /\ runs[r].parsed[2].column = 9
    /\ Len(diagnostics) = 1
    /\ diagnostics[1].column = 3

\* where the file of the probe is, and where the repository is
ProbeFile == Resolve(Path(probe.directory \o Slash \o probe.rel))
ProbeRoot == Resolve(Path(probe.repo_root))
ProbeInside ==
    /\ Len(ProbeRoot.parts) < Len(ProbeFile.parts)
    /\ \A i \in 1..Len(ProbeRoot.parts) : ProbeFile.parts[i] = ProbeRoot.parts[i]

\* C6: the line that names a file relative to the invocation directory and the line
\* that names it by an absolute path give one record each, with the same file and
\* the same key; the file is the path from the repository root for a file under
\* it, and the absolute path of the file otherwise.
C6_PathNormalization ==
    probeOut # << >> =>
        /\ Len(probeOut[1]) = 1 /\ Len(probeOut[2]) = 1
        /\ probeOut[1][1].file = probeOut[2][1].file
        /\ probeOut[1][1].key = probeOut[2][1].key
        /\ probeOut[1][1].key = probeOut[1][1].file \o <<58,55,58>> \o Marker   \* ":7:"
        /\ IF ProbeInside
           THEN probeOut[1][1].file =
                    JoinWith(SubSeq(ProbeFile.parts, Len(ProbeRoot.parts) + 1,
                                    Len(ProbeFile.parts)), Slash)
           ELSE probeOut[1][1].file = Slash \o JoinWith(ProbeFile.parts, Slash)

\* a file under the repository, named from a directory reached through a symbolic
\* link and with a ".." in both names
C6_Witness ==
    /\ probeOut # << >>
    /\ probe.repo_root = <<47,114>> /\ probe.directory = <<47,119,47,115>> /\ probe.rel = <<46,46,47,102,46,99>>   \* "/r", "/w/s", "../f.c"
    /\ probe.form = "joined"
    /\ probeOut[2][1].file = <<102,46,99>>   \* "f.c"

\* C8: a unit has a log file exactly if its output held a matching diagnostic line;
\* the file holds the unit's output, and there is no other file in logs/.
C8_LogIffDiagnostic ==
    /\ \A r \in DOMAIN runs :
          /\ (runs[r].log # << >>) <=> (MatchingLines(runs[r].stdout \o runs[r].stderr) # {})
          /\ runs[r].log # << >> =>
                /\ runs[r].log \in DOMAIN logs
                /\ logs[runs[r].log] = runs[r].stdout \o runs[r].stderr
    /\ \A name \in DOMAIN logs : \E r \in DOMAIN runs : runs[r].log = name

\* a unit that failed and printed lines, none of them a diagnostic of the checker,
\* has no log, and a unit with a diagnostic has one
C8_Witness ==
    /\ \E r \in DOMAIN runs :
          /\ runs[r].returncode # 0
          /\ runs[r].stdout \o runs[r].stderr # << >>
          /\ Contains(runs[r].stderr, Marker)
          /\ runs[r].log = << >>
    /\ \E r \in DOMAIN runs : runs[r].log # << >>
    /\ Cardinality(DOMAIN logs) = 1

\* the commands restore_linux_repo has issued so far, oldest first
RestoreLog == SelectSeq(log, LAMBDA e : e.phase = "restore")

\* the recorded branch is a named branch, not the detached-HEAD sentinel
NamedBranch == original_branch # "" /\ original_branch # Detached

\* the commands of a whole restoration, as <<command, argument>>
RestorePlan ==
    <<  <<"git clean -fdx", "first">>, <<"git checkout", original_commit>>  >>
    \o (IF NamedBranch
        THEN <<  <<"git checkout", original_branch>>, <<"git reset --hard", original_commit>>  >>
        ELSE << >>)
    \o <<  <<"git clean -fdx", "last">>  >>

\* C11 (restoration sequence): restore_linux_repo issues hard-clean, checkout of the
\* original commit, then, only for a named branch, checkout of that branch and
\* hard-reset to the original commit, then one more hard-clean, each after the
\* success of the one before; when all succeed HEAD is the original commit and a
\* named branch is current and points at the original commit.
C11_RestoreSequence ==
    /\ Len(RestoreLog) <= Len(RestorePlan)
    /\ \A i \in 1..Len(RestoreLog) :
          /\ <<RestoreLog[i].op, RestoreLog[i].arg>> = RestorePlan[i]
          /\ i < Len(RestoreLog) => RestoreLog[i].rc = 0
    /\ RestoreCompleted =>
          /\ Len(RestoreLog) = Len(RestorePlan)
          /\ repo.head = original_commit
          /\ IF NamedBranch
             THEN repo.branch = original_branch /\ repo.tip = original_commit
             ELSE repo.branch = Detached

\* a tag was checked out from a named branch and the restoration ran all five
\* of its commands
C11_Witness ==
    /\ RestoreCompleted /\ NamedBranch /\ Len(RestoreLog) = 5
    /\ \E i \in 1..Len(log) : TagStep(i, 1, "git checkout")
    /\ repo.branch = BranchName

\* C12 (build decision): build_checker runs the compile command exactly if force is
\* set, or the artifact is missing, or the artifact is older than the source; when
\* the source does not exist it fails with FileNotFoundError before any command,
\* also when an artifact exists; a compile that exits non-zero leaves the call as a
\* CommandError, and one that exits zero leaves the artifact written.
C12_BuildDecision ==
    lastBuild.outcome # "none" =>
        /\ lastBuild.srcExists =>
              (lastBuild.ran <=>
                  (\/ lastBuild.force
                   \/ ~lastBuild.libExists
                   \/ lastBuild.libMtime < lastBuild.srcMtime))
        /\ ~lastBuild.srcExists => (lastBuild.outcome = "MissingInput" /\ ~lastBuild.ran)
        /\ lastBuild.outcome = "MissingInput" => ~lastBuild.srcExists
        /\ lastBuild.outcome = "CommandError" <=> (lastBuild.ran /\ lastBuild.rc # 0)
        /\ lastBuild.outcome = "compiled" <=> (lastBuild.ran /\ lastBuild.rc = 0)
        /\ lastBuild.outcome = "reused" <=> (lastBuild.srcExists /\ ~lastBuild.ran)

\* an artifact compiled earlier is older than the rewritten source, and the
\* compile command of an unforced call fails
C12_Witness ==
    /\ compiles >= 1
    /\ lastBuild.outcome = "CommandError"
    /\ ~lastBuild.force /\ lastBuild.libExists
    /\ lastBuild.libMtime < lastBuild.srcMtime

(***************************************************************************)
(* SpecRun: run_command called on its own, over the exit codes, the        *)
(* captured streams and both values of capture_output and check.           *)
(***************************************************************************)
MaxRuns == 2

\* exit codes of a finished process: success, failures, death by signal 9
RunCodes == {0, 1, 128, -9}

\* run_command(cmd, capture_output=..., check=...), the process ending with exit
\* code rc after writing out = <<stdout, stderr>>
run_call ==
    /\ Len(cmds) < MaxRuns
    /\ \E rc \in RunCodes, capture_output \in BOOLEAN, check \in BOOLEAN :
         \E out \in (IF capture_output THEN Captured ELSE {<<"", "">>}) :
            \E r \in {run_command(Proc(rc, out, capture_output), capture_output, check)} :
               cmds' = Append(cmds, [returncode |-> rc, out |-> out,
                                     capture_output |-> capture_output, check |-> check,
                                     raised |-> r.raised, exc |-> r.exc,
                                     result |-> r.result])
    /\ UNCHANGED <<flowVars, buildVars, compareVars, probeVars, analyzerVars, captureVars, filterVars, fsVars>>

InitRun ==
    /\ FlowIdle /\ BuildIdle /\ CompareIdle /\ ProbeIdle /\ AnalyzerIdle /\ RunIdle
    /\ CaptureIdle /\ FilterIdle /\ FsStart
NextRun == run_call
SpecRun == InitRun /\ [][NextRun]_vars

\* C13 (command failure contract): run_command raises CommandError exactly if the
\* exit code is non-zero and check was requested; the error carries the exit code,
\* and the captured stdout and stderr exactly when capture was requested (None
\* otherwise); with check disabled a non-zero exit returns the result.
C13_CommandFailure ==
    \A i \in 1..Len(cmds) :
        LET c == cmds[i] IN
        /\ c.raised <=> (c.returncode # 0 /\ c.check)
        /\ c.raised =>
              /\ c.exc.kind = "CommandError"
              /\ c.exc.returncode = c.returncode
              /\ IF c.capture_output
                 THEN c.exc.stdout = c.out[1] /\ c.exc.stderr = c.out[2]
                 ELSE c.exc.stdout = None /\ c.exc.stderr = None
        /\ ~c.raised =>
              /\ c.exc = NoExc
              /\ c.result.returncode = c.returncode
              /\ c.capture_output =>
                    (c.result.stdout = c.out[1] /\ c.result.stderr = c.out[2])

\* a checked call with capture has raised with both streams, and an unchecked call
\* has returned a non-zero exit code
C13_Witness ==
    /\ Len(cmds) = 2
    /\ cmds[1].raised /\ cmds[1].capture_output /\ cmds[1].exc.stdout = "out"
    /\ cmds[1].exc.stderr = "err" /\ cmds[1].exc.returncode = 128
    /\ ~cmds[2].raised /\ ~cmds[2].check /\ cmds[2].result.returncode = 1

\* the capture commands run so far
CaptureEvents ==
    {i \in 1..Len(log) : log[i].phase = "tag" /\ log[i].op \in {CaptureTools[1], CaptureTools[2]}}

\* C14 (tool selection): find_compile_db_tool returns intercept-build whenever it is
\* on PATH, bear only when intercept-build is absent and bear present, and fails
\* (RuntimeError, before the try block) exactly if neither is present; the tool it
\* returned is the one every tag's capture of the run is made with.
C14_ToolSelection ==
    /\ path_tools.looked =>
          /\ CaptureTools[1] \in path_tools.present => build_tool = CaptureTools[1]
          /\ build_tool = CaptureTools[2] <=>
                (CaptureTools[1] \notin path_tools.present
                 /\ CaptureTools[2] \in path_tools.present)
          /\ path_tools.present # {} => build_tool \in path_tools.present
          /\ path_tools.present = {} <=>
                (build_tool = "" /\ firstFailure = OtherError("RuntimeError")
                 /\ ~RestoreEntered /\ CaptureEvents = {})
    /\ \A i \in CaptureEvents : path_tools.looked /\ log[i].op = build_tool

\* both tools are on PATH and two tags were captured with intercept-build
C14_Witness ==
    /\ path_tools.looked
    /\ path_tools.present = {CaptureTools[1], CaptureTools[2]}
    /\ \E i, j \in CaptureEvents :
          /\ log[i].k = 1 /\ log[j].k = 2
          /\ log[i].op = CaptureTools[1] /\ log[j].op = CaptureTools[1]

(***************************************************************************)
(* SpecCapture: generate_compile_commands called again and again in one    *)
(* kernel tree, which may hold the database of an earlier capture.         *)
(***************************************************************************)
MaxCaptures == 2

\* the tree before the first call: clean, or with a database left by an earlier run
CaptureTrees ==
    {[head |-> OrigCommit, branch |-> Detached, tip |-> OrigCommit, modified |-> FALSE,
      untracked |-> c # "none", cdb |-> c] : c \in {"none", "old"}}

\* generate_compile_commands(repo, ...): the build of the checked-out tag ends with
\* exit code rc and has written the database or not
capture_call ==
    /\ Len(captures) < MaxCaptures
    /\ \E content \in TagNames, rc \in ToolCodes, written \in BOOLEAN,
          dirty \in Dirtied(capTree) :
         \E g \in {generate_compile_commands(dirty, content, rc, written)} :
            /\ capTree' = g.repo
            /\ captures' = Append(captures,
                                  [before |-> capTree.cdb, content |-> content, rc |-> rc,
                                   written |-> written, exc |-> g.exc,
                                   returned |-> g.returned, after |-> g.repo.cdb])
    /\ UNCHANGED <<flowVars, buildVars, compareVars, probeVars, analyzerVars, runVars, filterVars, fsVars>>

InitCapture ==
    /\ FlowIdle /\ BuildIdle /\ CompareIdle /\ ProbeIdle /\ AnalyzerIdle /\ RunIdle
    /\ FilterIdle /\ FsStart
    /\ capTree \in CaptureTrees
    /\ captures = << >>
NextCapture == capture_call
SpecCapture == InitCapture /\ [][NextCapture]_vars

\* C15 (capture freshness): a database that generate_compile_commands returns was
\* written by the build of that call, never one found in the tree before it; a
\* build that exits 0 without leaving a database raises RuntimeError (capture
\* failed); a build that exits non-zero raises CommandError with its exit code.
C15_FreshCapture ==
    \A i \in 1..Len(captures) :
        LET c == captures[i] IN
        /\ c.exc.kind = "none" <=> (c.rc = 0 /\ c.written)
        /\ c.exc.kind = "none" => (c.returned = c.content /\ c.after = c.content)
        /\ c.exc.kind # "none" => c.returned = "none"
        /\ (c.rc = 0 /\ ~c.written) => (c.exc = OtherError("RuntimeError") /\ c.after = "none")
        /\ c.rc # 0 => (c.exc.kind = "CommandError" /\ c.exc.returncode = c.rc)

\* the tree held the database of the first capture when the second build exited 0
\* without writing one: the call failed and the old database is gone
C15_Witness ==
    /\ Len(captures) = 2
    /\ captures[1].exc.kind = "none" /\ captures[1].returned = "v5.9"
    /\ captures[2].before = "v5.9" /\ captures[2].content = "v5.17"
    /\ captures[2].rc = 0 /\ ~captures[2].written
    /\ captures[2].exc.kind = "RuntimeError"
    /\ capTree.cdb = "none"

\* the commands that configure the kernel or capture its build
ConfigureOps == {"make mrproper", "make defconfig", CaptureTools[1], CaptureTools[2]}

\* event j is the successful command op of the k-th tag
TagDone(j, k, op) == log[j].phase = "tag" /\ log[j].k = k /\ log[j].op = op /\ log[j].rc = 0

\* C16 (cache policy): the stored database of a tag is copied into the tree, with no
\* configuration and no build, exactly when --reuse-cdb was given and a stored copy
\* existed when the tag was reached; in every other case (no --reuse-cdb, whether a
\* copy is stored or not, or --reuse-cdb without a stored copy) the tag is
\* configured and captured afresh, and a tag that reaches the analysis has its
\* fresh database stored under its results directory.
C16_CachePolicy ==
    /\ \A i \in 1..Len(log) :
          (log[i].phase = "tag" /\ log[i].op = "stored_cdb.exists") =>
             \E k \in {log[i].k}, use \in {args.reuse_cdb /\ log[i].arg = "stored"} :
                \E after \in {{j \in (i + 1)..Len(log) : log[j].phase = "tag" /\ log[j].k = k}} :
                   IF use
                   THEN /\ (i + 1) \in after /\ log[i + 1].op = "copy2"
                        /\ \A j \in after : log[j].op \notin ConfigureOps
                   ELSE /\ \A j \in after : log[j].op # "copy2"
                        /\ after # {} => ((i + 1) \in after /\ log[i + 1].op = "make mrproper")
                        /\ \A j \in after :
                              log[j].op = "run_static_analyzer" =>
                                 /\ \E a, b, c \in after :
                                       /\ a < b /\ b < c /\ c < j
                                       /\ TagDone(a, k, "make mrproper")
                                       /\ TagDone(b, k, "make defconfig")
                                       /\ TagDone(c, k, build_tool)
                                 /\ TagDir(args.tags[k]) \in DOMAIN stored
                                 /\ stored[TagDir(args.tags[k])] = args.tags[k]
    /\ pc = "tag_analyze" =>
          \E i \in 1..Len(log) :
             /\ log[i].phase = "tag" /\ log[i].op = "stored_cdb.exists" /\ log[i].k = tagIdx
             /\ repo.cdb = stored[TagDir(CurrentTag)]
             /\ (args.reuse_cdb /\ log[i].arg = "stored") \/ repo.cdb = CurrentTag

\* with --reuse-cdb and nothing stored, the first tag was configured and captured,
\* and the second, the same tag, was analysed on the copy the first one stored
C16_Witness ==
    /\ args.reuse_cdb /\ Len(args.tags) = 2
    /\ \E i, j, c \in 1..Len(log) :
          /\ log[i].op = "stored_cdb.exists" /\ log[i].k = 1 /\ log[i].arg = "missing"
          /\ log[j].op = "stored_cdb.exists" /\ log[j].k = 2 /\ log[j].arg = "stored"
          /\ TagDone(c, 1, build_tool)
    /\ \E j \in 1..Len(log) : TagDone(j, 2, "run_static_analyzer")
    /\ stored[TagDir(args.tags[2])] = args.tags[1]

(***************************************************************************)
(* SpecFilter: lines 346-367 applied to one compiler command line.         *)
(***************************************************************************)
MaxArgs == 4

\* the tokens after the compiler
ArgTokens == {<<45,99>>, <<45,111>>, <<45,111,120,46,111>>, <<120,46,111>>, <<45,79,50>>, <<97,45,111>>, <<45,99,120>>}   \* "-c", "-o", "-ox.o", "x.o", "-O2", "a-o", "-cx"

\* lines 346-367 on the arguments of one entry
filter_call ==
    /\ farguments # << >> /\ fargv = << >>
    /\ fargv' = filtered_args(farguments, CHECKER_LIBRARY)
    /\ UNCHANGED farguments
    /\ UNCHANGED <<flowVars, buildVars, compareVars, probeVars, analyzerVars, runVars, captureVars, fsVars>>

InitFilter ==
    /\ FlowIdle /\ BuildIdle /\ CompareIdle /\ ProbeIdle /\ AnalyzerIdle /\ RunIdle
    /\ CaptureIdle /\ FsStart
    /\ farguments \in {<<<<103,99,99>>>> \o rest : rest \in SeqsUpTo(ArgTokens, MaxArgs)}   \* "gcc"
    /\ fargv = << >>
NextFilter == filter_call
SpecFilter == InitFilter /\ [][NextFilter]_vars

\* the flags the claim says are put after the compiler
InjectedFlags ==
    <<<<45,45,97,110,97,108,121,122,101>>, <<45,88,99,108,97,110,103>>, <<45,108,111,97,100>>, <<45,88,99,108,97,110,103>>, CHECKER_LIBRARY, <<45,88,99,108,97,110,103>>,   \* "--analyze", "-Xclang", "-load", "-Xclang", "-Xclang"
      <<45,97,110,97,108,121,122,101,114,45,99,104,101,99,107,101,114,61,115,113,117,105,114,101,46,78,80,68,67,104,101,99,107,101,114>>, <<45,102,110,111,45,99,111,108,111,114,45,100,105,97,103,110,111,115,116,105,99,115>>>>   \* "-analyzer-checker=squire.NPDChecker", "-fno-color-diagnostics"

\* the token at position i of the command line is the path of a separate -o
OutputPath(a, i) ==
    LET path[j \in 1..Len(a)] ==
            IF j <= 2 THEN FALSE ELSE a[j - 1] = <<45,111>> /\ ~path[j - 1]   \* "-o"
    IN  path[i]

\* the token at position i is -c, or an output flag, or the path of one
RemovedToken(a, i) ==
    \/ OutputPath(a, i)
    \/ a[i] = <<45,99>>   \* "-c"
    \/ (Len(a[i]) >= 2 /\ SubSeq(a[i], 1, 2) = <<45,111>>)   \* "-o"

RepeatText == Render(probe.rel, <<55>>, <<51>>, SevWarning, Marker) \o LineAbs   \* "7", "3"

\* extract_warnings(text, repo_root, entry_directory, pattern), once more
extract_again ==
    /\ Len(probeOut) < 2
    /\ probeOut' = Append(probeOut,
                          extract_warnings(RepeatText, Path(probe.repo_root),
                                           Path(probe.directory)))
    /\ UNCHANGED <<probe, symlinks>>
    /\ UNCHANGED <<flowVars, buildVars, compareVars, analyzerVars, runVars, captureVars, filterVars>>

\* another process points the symbolic link /w at /o
link_retarget ==
    /\ symlinks = (LinkW :> LinkTarget)
    /\ symlinks' = (LinkW :> <<<<111>>>>)   \* "o"
    /\ UNCHANGED <<flowVars, buildVars, compareVars, probeVars, analyzerVars, runVars, captureVars,
                   filterVars>>

InitRepeat ==
    /\ FlowIdle /\ BuildIdle /\ CompareIdle /\ AnalyzerIdle /\ RunIdle /\ CaptureIdle /\ FilterIdle
    /\ FsStart
    /\ probe \in [repo_root : ProbeRoots, directory : ProbeDirs, rel : ProbeRels,
                  form : {"joined"}]
    /\ probeOut = << >>
NextRepeat == extract_again \/ link_retarget
SpecRepeat == InitRepeat /\ [][NextRepeat]_vars

\* C18 (extractor determinism): two calls of extract_warnings with identical text,
\* repository root and invocation directory return identical lists, whatever else
\* has changed between them (the function does no I/O).  Violated: the function
\* resolves the root, the directory and every path with Path.resolve(), which
\* reads the symbolic links of the file system.
C18_ExtractorDeterminism ==
    Len(probeOut) = 2 => probeOut[1] = probeOut[2]

\* every tag of the list has been analysed
AllTagsProcessed ==
    \A k \in 1..Len(args.tags) : \E j \in 1..Len(log) : TagDone(j, k, "run_static_analyzer")

\* C19 (comparison report): when at least two tags were processed, the workflow
\* writes the comparison report of the first tag of the list (baseline) against
\* the last (latest).  Stated for the runs most favourable to the claim: every tag
\* of the list was analysed and the restoration succeeded.  Violated: for a tag
\* with "/" in its name the report's file name has a directory part that does not
\* exist, and opening it raises FileNotFoundError.
C19_ComparisonReport ==
    (WorkflowLeft /\ Len(args.tags) >= 2 /\ AllTagsProcessed /\ RestoreCompleted) =>
        /\ report.written
        /\ report.baseline_tag = args.tags[1]
        /\ report.latest_tag = args.tags[Len(args.tags)]

\* the call of compare_summaries lacks the summary of one of its two tags
SummaryMissing ==
    cmpCall[1] \notin DOMAIN cmpSummaries \/ cmpCall[2] \notin DOMAIN cmpSummaries

\* C20 (comparator soft failure): when the summary of the baseline tag or of the
\* latest tag is missing, compare_summaries returns after reporting insufficient
\* data, with no report written; a report is written only when both are present;
\* and the summaries it was given are never changed.
C20_SoftFailure ==
    /\ [](cmpCall # << >> => (cmpReport.written <=> ~SummaryMissing))
    /\ [][cmpSummaries' = cmpSummaries]_vars

\* called for v5.9 against v5.17 with only the summary of v5.9: nothing written
C20_Witness ==
    /\ cmpCall = <<BaselineTag, LatestTag>>
    /\ DOMAIN cmpSummaries = {BaselineTag}
    /\ ~cmpReport.written

(***************************************************************************)
(* The analyzer driver, the tag loop and the stored artifacts              *)
(***************************************************************************)
\* C21: no failure of a single unit leaves run_static_analyzer as an exception
\* (neither an analyzer that cannot be started or whose working directory is
\* unusable, nor an entry with neither "arguments" nor "command"), and when the
\* function has returned without a limit, every entry of the compile database was
\* gone past, each one that names a source file and has a command line by an
\* analyzer invocation.
C21_UnitFailureContainment ==
    /\ apc # "raised"
    /\ apc = "done" /\ ~limit.given =>
          /\ unitIdx = Len(data)
          /\ \A i \in 1..Len(data) :
                source_file(data[i]) /\ ~command_missing(data[i])
                /\ entry_arguments(data[i]) # << >>
                => \E j \in DOMAIN runs : runs[j].idx = i - 1

\* where the program is while analyze_kernel_revision works on a tag
TagPcs == {"tag_checkout", "tag_reset", "tag_clean", "tag_cdb", "tag_mrproper",
           "tag_defconfig", "tag_capture", "tag_analyze"}

\* the loop of line 570 was entered and left before the last tag of the list was
\* done: a step of tag number tagIdx failed
LoopAborted ==
    /\ \E i \in 1..Len(log) : log[i].phase = "tag"
    /\ pc \notin TagPcs
    /\ tagIdx <= Len(args.tags)

\* C22: once a step of a tag has failed, no step of a later tag is executed and no
\* tag step follows the restoration's first command; the summaries are exactly
\* those of the tags before the failing one; restore_linux_repo is run before the
\* workflow is left; the workflow never returns normally, the process exits with a
\* non-zero status, and when the restoration raised nothing the exception that
\* reaches main is the tag's failure.
C22_FatalTagFailure ==
    LoopAborted =>
        /\ firstFailure.kind # "none"
        /\ \A i \in 1..Len(log) : log[i].phase = "tag" => log[i].k <= tagIdx
        /\ \A j \in 2..Len(log) : log[j - 1].phase = "restore" => log[j].phase = "restore"
        /\ DOMAIN summaries = {args.tags[i] : i \in 1..(tagIdx - 1)}
        /\ pc # "restore_clean1" => RestoreEntered
        /\ pc \notin {"compare", "main_return"}
        /\ report.written = FALSE
        /\ pc = "exited" => exitCode # 0
        /\ (pc \in {"main_except", "exited"} /\ RestoreCompleted) => exc = firstFailure

\* the first of two different tags was analysed, a step of the second failed, the
\* restoration ran to its end and the process has exited
C22_Witness ==
    /\ LoopAborted /\ pc = "exited" /\ RestoreCompleted
    /\ Len(args.tags) = 2 /\ tagIdx = 2 /\ args.tags[1] # args.tags[2]
    /\ DOMAIN summaries = {args.tags[1]}
    /\ \E i \in 1..Len(log) : log[i].phase = "tag" /\ log[i].k = 2 /\ log[i].rc # 0

\* the argument list of an entry (lines 338-342), empty when the entry has neither
\* a usable "arguments" nor a "command"
ArgumentList(entry) ==
    IF has_arguments(entry) THEN entry.arguments
    ELSE IF HasKey(entry, "command") THEN shlex_split(entry.command)
    ELSE << >>

\* an entry the analyzer is to be run for: a C or C++ source file and a non-empty
\* argument list
Eligible(entry) == source_file(entry) /\ ArgumentList(entry) # << >>

\* the positions (from 1) of the eligible entries among the first n of the database
EligibleUpTo(n) == {i \in 1..n : Eligible(data[i])}

\* the number of analyzer invocations a call is to make
UnitsToAnalyze ==
    IF limit.given THEN Min({limit.n, Cardinality(EligibleUpTo(Len(data)))})
    ELSE Cardinality(EligibleUpTo(Len(data)))

\* the j-th analyzer invocation is for the j-th eligible entry of the database, no
\* more than limit invocations are made, only invocations count against the limit
InvokedInOrder ==
    /\ \A j \in 1..Len(runs) :
          /\ Eligible(data[runs[j].idx + 1])
          /\ Cardinality(EligibleUpTo(runs[j].idx)) = j - 1
    /\ limit.given => Len(runs) <= limit.n
    /\ processed = Len(runs)

\* C23: the analyzer is invoked exactly for the first min(limit, number of
\* eligible entries) eligible entries, in database order (all of them without a
\* limit, none with limit 0); an entry that is not eligible is passed over without
\* an invocation, without counting against the limit and without ending the call.
C23_UnitSelection ==
    /\ InvokedInOrder
    /\ apc = "done" => Len(runs) = UnitsToAnalyze
    /\ apc = "raised" => Eligible(data[unitIdx + 1])

\* the keys of a list of diagnostic records, in the order of the list
KeysOf(seq) == [i \in DOMAIN seq |-> seq[i].key]

\* a list of keys holds exactly the keys of the set, each once, in ascending order
ListsAscending(keys, set) ==
    /\ {keys[i] : i \in DOMAIN keys} = set
    /\ Len(keys) = Cardinality(set)
    /\ Ascending(keys)

\* C24: after every unit, diagnostics holds one record for each key of
\* warning_keys, the first one met with that key, and no other record; when the
\* function has returned, the lines of npd_warnings.txt and the keys of the records
\* of npd_warnings.json are exactly the keys of the summary's warnings, each once,
\* in ascending order.
C24_SortedPersistence ==
    /\ \E met \in {ParsedUpTo(Len(runs))} :
          /\ Len(diagnostics) = Cardinality(warning_keys)
          /\ \A k \in warning_keys :
                \E i \in DOMAIN diagnostics : diagnostics[i] = FirstWithKey(met, k)
    /\ apc = "done" =>
          /\ summaryOut.warnings = warning_keys
          /\ ListsAscending(SplitLines(warnings_txt), summaryOut.warnings)
          /\ ListsAscending(KeysOf(warnings_json), summaryOut.warnings)

\* the function has returned two keys that it met in descending order, after
\* dropping a later record with a key it had met
C24_Witness ==
    /\ apc = "done"
    /\ Len(warnings_json) = 2
    /\ \E met \in {ParsedUpTo(Len(runs))} :
          /\ Len(met) > 2
          /\ LexBefore(met[2].key, met[1].key)
          /\ met[3].key = met[2].key
          /\ warnings_json[1] = met[2]

\* event i of the log: run_static_analyzer returned the summary of list element
\* log[i].k, after writing its key listing, dump and logs into the tag's directory
SummaryCreated(i) ==
    log[i].phase = "tag" /\ log[i].op = "run_static_analyzer" /\ log[i].rc = 0

\* C25: the summary of a tag is created once in a run, and the processing of
\* another list element neither replaces its entry in summaries nor writes into
\* the directory that holds its artifacts: no two list elements for which
\* run_static_analyzer returned have the same tag or the same tag directory.
C25_SummaryCreatedOnce ==
    \A i \in 1..Len(log), j \in 1..Len(log) :
        (i < j /\ SummaryCreated(i) /\ SummaryCreated(j)) =>
            /\ args.tags[log[i].k] # args.tags[log[j].k]
            /\ TagDir(args.tags[log[i].k]) # TagDir(args.tags[log[j].k])

\* the git commands that change HEAD or the working tree, and all git commands
MutatingOps == {"git checkout", "git reset --hard", "git clean -fdx"}
GitOps == MutatingOps \cup {"git submodule update", "git fetch", "git rev-parse"}

\* what has happened when the try block of line 569 is entered
MutationGate ==
    /\ args.mode = "kernel"
    /\ lastBuild.outcome \in {"compiled", "reused"}
    /\ original_commit # "" /\ original_branch # ""
    /\ path_tools.looked /\ build_tool \in path_tools.present

\* build_checker raised; find_compile_db_tool found no tool
BuildFailed == lastBuild.outcome \in {"MissingInput", "CommandError"}
LookupFailed == path_tools.looked /\ path_tools.present = {}

\* HEAD, the branch and the working tree of linux/ are what they were when the
\* program started; linux/ is missing or present as it was
RepoAsAtStart ==
    /\ repo.head = OrigCommit /\ repo.tip = OrigCommit /\ TreeClean(repo)
    /\ original_branch # "" => repo.branch = original_branch
LinuxAsAtStart ==
    ~(linuxExists /\ \E i \in 1..Len(log) : log[i].op = "git submodule update")

\* checkout, reset and clean run only behind the gate; smoke mode runs no git
\* command
GatedCommands ==
    /\ \A i \in 1..Len(log) : log[i].op \in MutatingOps => MutationGate
    /\ args.mode = "smoke" => \A i \in 1..Len(log) : log[i].op \notin GitOps

\* C26 as claimed: checkout, reset and clean run only after the build succeeded, in
\* kernel mode, with the original commit and branch recorded and a capture tool
\* found; smoke mode runs no git command; after a failure of the build or of the
\* tool lookup the repository is exactly as it was.  Violated: the lookup comes
\* after ensure_linux_submodule, which creates a missing linux/ checkout (and after
\* git fetch --tags).
C26_RepositoryAsItWas ==
    /\ GatedCommands
    /\ (BuildFailed \/ LookupFailed) => (RepoAsAtStart /\ LinuxAsAtStart)

\* C26 as amended: the same gate; after a failure of the build the repository is
\* exactly as it was, and after a failure of the tool lookup HEAD, the branch and
\* the working tree of linux/ are as they were, the submodule initialisation and
\* the tag fetch having run.
C26_MutationGated ==
    /\ GatedCommands
    /\ BuildFailed => (RepoAsAtStart /\ LinuxAsAtStart)
    /\ LookupFailed => RepoAsAtStart

\* the process has exited after a failed tool lookup, linux/ having been created
\* and the original commit and branch recorded
C26_Witness ==
    /\ pc = "exited" /\ LookupFailed
    /\ original_commit # "" /\ original_branch # ""
    /\ ~LinuxAsAtStart
    /\ RepoAsAtStart

\* the database an earlier run has stored for a tag's directory
StoredEarlier == "old"

\* C27: the compile database in the tree when run_static_analyzer is called for a
\* tag was captured from a checkout of that tag: in this tag's processing, in an
\* earlier list element of the same tag, or (under --reuse-cdb only) in an earlier
\* run; it is never the database captured for another tag.
C27_DatabaseOfItsTag ==
    pc = "tag_analyze" =>
        /\ repo.head = CurrentTag
        /\ repo.cdb \in {CurrentTag, StoredEarlier}
        /\ repo.cdb = StoredEarlier => args.reuse_cdb

\* a command of a tag or of the restoration has failed, or the tag loop was left
\* before its end
RunFailed ==
    \/ LoopAborted
    \/ \E i \in 1..Len(log) : log[i].phase \in {"tag", "restore"} /\ log[i].rc # 0

\* C28: compare_summaries is called (line 590) only after restore_linux_repo ran
\* to its end with every command succeeding and every tag of the list analysed;
\* when a tag step or the restoration has failed, it is not called and no report is
\* written, and the database stored for every tag that has a summary is still
\* under the results directory.
C28_CompareAfterCleanRun ==
    /\ (pc = "compare" \/ report.written) =>
          /\ RestoreCompleted
          /\ AllTagsProcessed
          /\ ~RunFailed
          /\ \A i \in 1..Len(log) : log[i].phase = "restore" => log[i].rc = 0
    /\ RunFailed =>
          /\ pc # "compare" /\ ~report.written
          /\ \A t \in DOMAIN summaries : TagDir(t) \in DOMAIN stored

\* the process has exited without a report after the two tags of the list were
\* analysed and the last command of the restoration failed
C28_Witness ==
    /\ pc = "exited" /\ Len(args.tags) = 2 /\ AllTagsProcessed
    /\ DOMAIN summaries = {args.tags[1], args.tags[2]} /\ args.tags[1] # args.tags[2]
    /\ \E i \in 1..Len(log) :
          log[i].phase = "restore" /\ log[i].arg = "last" /\ log[i].rc # 0
    /\ ~report.written
    /\ \A t \in DOMAIN summaries : TagDir(t) \in DOMAIN stored

\* C29: when run_kernel_workflow calls compare_summaries (line 590), the list has
\* at least two tags and summaries holds a summary for the first and for the last
\* of them; a workflow that returns for such a list has written the report, never
\* taken the return of line 501.
C29_ComparatorPrecondition ==
    /\ pc = "compare" =>
          /\ Len(args.tags) >= 2
          /\ args.tags[1] \in DOMAIN summaries
          /\ args.tags[Len(args.tags)] \in DOMAIN summaries
          /\ summaries[args.tags[1]].tag = args.tags[1]
          /\ summaries[args.tags[Len(args.tags)]].tag = args.tags[Len(args.tags)]
    /\ (wf = "returned" /\ Len(args.tags) >= 2) => report.written

\* the workflow has returned with its report for a list that names one tag twice
C29_Witness ==
    /\ wf = "returned" /\ report.written
    /\ Len(args.tags) = 2 /\ args.tags[1] = args.tags[2]
    /\ DOMAIN summaries = {args.tags[1]}

(***************************************************************************)
(* SpecKey: extract_warnings on a text of two diagnostic lines.            *)
(***************************************************************************)
\* the lines an analyzer output of the model is made of: two files, line numbers
\* written as 7, 07 and 17, two columns, two severities, two messages
KeyLines ==
    {Render(path, line, col, severity, message) :
        path \in {<<102,46,99>>, <<103,46,99>>},   \* "f.c", "g.c"
        line \in {<<55>>, <<48,55>>, <<49,55>>},   \* "7", "07", "17"
        col \in {<<51>>, <<57>>},   \* "3", "9"
        severity \in {SevWarning, SevError},
        message \in {Marker, Marker \o <<32,40,112,41>>}}   \* " (p)"

\* extract_warnings(text, repo_root, entry_directory, pattern) on the two lines
key_probe ==
    /\ probeOut = << >>
    /\ probeOut' = extract_warnings(probe.first \o probe.second, Path(probe.repo_root),
                                    Path(probe.directory))
    /\ UNCHANGED probe
    /\ UNCHANGED <<flowVars, buildVars, compareVars, analyzerVars, runVars, captureVars, filterVars, fsVars>>

InitKey ==
    /\ FlowIdle /\ BuildIdle /\ CompareIdle /\ AnalyzerIdle /\ RunIdle /\ CaptureIdle /\ FilterIdle
    /\ FsStart
    /\ probe \in [repo_root : {<<47,114>>}, directory : {<<47,114,47,115>>}, first : KeyLines,   \* "/r", "/r/s"
                  second : KeyLines]
    /\ probeOut = << >>
NextKey == key_probe
SpecKey == InitKey /\ [][NextKey]_vars

\* C30 (key identity): two diagnostics that extract_warnings returns have equal
\* keys exactly if they have the same file, the same line and the same message,
\* whatever their column, severity and raw text.
C30_KeyIdentity ==
    Len(probeOut) = 2 =>
        ((probeOut[1].key = probeOut[2].key) <=> SamePlace(probeOut[1], probeOut[2]))

====
